---------------------------- MODULE Spec2Model ----------------------------
(***************************************************************************)
(* A model of the hybrid work-dispatch engine of gastown: the task         *)
(* analyzer, model selection and the router (internal/backend), the        *)
(* context manager, the cost tracker, and the rate-limited, retrying       *)
(* Invoke of the API backends.                                             *)
(*                                                                         *)
(* Go strings are modelled as sequences of one-character strings, so that  *)
(* strings.ToLower, strings.Contains, strings.Fields and the numbered-list *)
(* regular expression are computed character by character.  Costs, which   *)
(* the code holds as float64 dollars, are modelled as natural numbers of   *)
(* a fixed small unit.                                                     *)
(***************************************************************************)
EXTENDS Integers, Sequences, FiniteSets, TLC

\* ------------------------------------------------------------------------
\* Strings
\* ------------------------------------------------------------------------

UpperChars == <<"A","B","C","D","E","F","G","H","I","J","K","L","M",
                "N","O","P","Q","R","S","T","U","V","W","X","Y","Z">>

LowerChars == <<"a","b","c","d","e","f","g","h","i","j","k","l","m",
                "n","o","p","q","r","s","t","u","v","w","x","y","z">>

DigitChars == {"0","1","2","3","4","5","6","7","8","9"}

\* unicode.IsSpace on the ASCII range, as strings.Fields and \s use it
SpaceChars == {" ", "\t", "\n", "\r", "\f"}

IsDigit(c) == c \in DigitChars

IsSpace(c) == c \in SpaceChars

\* the class \w of Go's regexp: [0-9A-Za-z_]
IsWordChar(c) ==
    \/ c \in DigitChars
    \/ c = "_"
    \/ \E i \in 1..26 : c = UpperChars[i] \/ c = LowerChars[i]

LowerChar(c) ==
    IF \E i \in 1..26 : UpperChars[i] = c
    THEN LowerChars[CHOOSE i \in 1..26 : UpperChars[i] = c]
    ELSE c

\* strings.ToLower
ToLower(s) == [i \in 1..Len(s) |-> LowerChar(s[i])]

\* strings.Contains(s, sub)
Contains(s, sub) ==
    \E i \in 1..(Len(s) - Len(sub) + 1) : SubSeq(s, i, i + Len(sub) - 1) = sub

\* len(strings.Fields(s)): the number of maximal runs of non-space characters
WordCount(s) ==
    Cardinality({i \in 1..Len(s) :
        /\ ~IsSpace(s[i])
        /\ (i = 1 \/ IsSpace(s[i - 1]))})

\* End of the maximal run of characters of a class that starts at i
\* (i - 1 when s[i] is not in the class).
DigitRunEnd(s, i) ==
    IF i > Len(s) \/ ~IsDigit(s[i]) THEN i - 1
    ELSE CHOOSE j \in i..Len(s) :
            /\ \A k \in i..j : IsDigit(s[k])
            /\ (j = Len(s) \/ ~IsDigit(s[j + 1]))

SpaceRunEnd(s, i) ==
    IF i > Len(s) \/ ~IsSpace(s[i]) THEN i - 1
    ELSE CHOOSE j \in i..Len(s) :
            /\ \A k \in i..j : IsSpace(s[k])
            /\ (j = Len(s) \/ ~IsSpace(s[j + 1]))

WordRunEnd(s, i) ==
    IF i > Len(s) \/ ~IsWordChar(s[i]) THEN i - 1
    ELSE CHOOSE j \in i..Len(s) :
            /\ \A k \in i..j : IsWordChar(s[k])
            /\ (j = Len(s) \/ ~IsWordChar(s[j + 1]))

\* End position of the match of \d+\.\s+\w+ that starts at i, or 0 if none.
\* Each quantifier is greedy and is followed by a character outside its
\* class, so the maximal runs are the only match.
NumberedItemEnd(s, i) ==
    LET d == DigitRunEnd(s, i) IN
    IF d < i \/ d + 1 > Len(s) \/ s[d + 1] # "." THEN 0
    ELSE LET sp == SpaceRunEnd(s, d + 2) IN
         IF sp < d + 2 THEN 0
         ELSE LET w == WordRunEnd(s, sp + 1) IN
              IF w < sp + 1 THEN 0 ELSE w

\* len(numberedListRegex.FindAllString(s, -1)): the matches are taken
\* leftmost first and do not overlap, the search resuming after each match
RECURSIVE CountNumberedItems(_, _)
CountNumberedItems(s, i) ==
    LET starts == {j \in i..Len(s) : NumberedItemEnd(s, j) # 0} IN
    IF starts = {} THEN 0
    ELSE LET first == CHOOSE j \in starts : \A k \in starts : j <= k IN
         1 + CountNumberedItems(s, NumberedItemEnd(s, first) + 1)

Min(a, b) == IF a < b THEN a ELSE b

Max(a, b) == IF a > b THEN a ELSE b

\* ------------------------------------------------------------------------
\* Task analyzer (internal/backend/analyzer.go)
\* ------------------------------------------------------------------------

TierSimple == 0
TierModerate == 1
TierComplex == 2
TierCLI == 3

toolPatterns == <<
    <<"c","r","e","a","t","e"," ","f","i","l","e">>, <<"c","r","e","a","t","e"," ","a"," ","f","i","l","e">>, <<"w","r","i","t","e"," ","t","o"," ","f","i","l","e">>, <<"e","d","i","t"," ","f","i","l","e">>,
    <<"m","o","d","i","f","y"," ","f","i","l","e">>, <<"d","e","l","e","t","e"," ","f","i","l","e">>, <<"r","u","n"," ","t","e","s","t">>, <<"r","u","n"," ","t","h","e"," ","t","e","s","t">>,
    <<"e","x","e","c","u","t","e"," ","c","o","m","m","a","n","d">>, <<"g","i","t"," ","c","o","m","m","i","t">>, <<"g","i","t"," ","p","u","s","h">>, <<"g","i","t"," ","p","u","l","l">>,
    <<"n","p","m"," ","i","n","s","t","a","l","l">>, <<"n","p","m"," ","r","u","n">>, <<"p","i","p"," ","i","n","s","t","a","l","l">>, <<"m","a","k","e"," ","b","u","i","l","d">>,
    <<"d","e","p","l","o","y"," ","t","o">>, <<"r","e","s","t","a","r","t"," ","s","e","r","v","i","c","e">>, <<"s","s","h"," ","i","n","t","o">>, <<"d","o","c","k","e","r"," ","b","u","i","l","d">>,
    <<"d","o","c","k","e","r"," ","r","u","n">>, <<"d","o","c","k","e","r"," ","c","o","m","p","o","s","e">>, <<"k","u","b","e","c","t","l"," ","a","p","p","l","y">>, <<"k","u","b","e","c","t","l"," ","c","r","e","a","t","e">> >>

complexPatterns == {
    <<<<"i","m","p","l","e","m","e","n","t">>, 30>>, <<<<"r","e","f","a","c","t","o","r">>, 30>>, <<<<"a","r","c","h","i","t","e","c","t">>, 40>>,
    <<<<"d","e","s","i","g","n">>, 25>>, <<<<"d","e","b","u","g">>, 20>>, <<<<"o","p","t","i","m","i","z","e">>, 20>>,
    <<<<"m","i","g","r","a","t","e">>, 25>>, <<<<"i","n","t","e","g","r","a","t","e">>, 20>>, <<<<"m","u","l","t","i","-","s","t","e","p">>, 20>>,
    <<<<"c","o","m","p","r","e","h","e","n","s","i","v","e">>, 15>> }

multiStepPatterns == <<
    <<"a","n","d"," ","t","h","e","n">>, <<"a","f","t","e","r"," ","t","h","a","t">>, <<"f","i","r","s","t",",">>, <<"s","e","c","o","n","d",",">>, <<"f","i","n","a","l","l","y",",">>,
    <<"s","t","e","p"," ","1">>, <<"s","t","e","p"," ","2">> >>

simplePatterns == <<
    <<"s","u","m","m","a","r","i","z","e">>, <<"e","x","p","l","a","i","n">>, <<"w","h","a","t"," ","i","s">>, <<"l","i","s","t">>, <<"f","o","r","m","a","t">>, <<"c","o","n","v","e","r","t">>,
    <<"t","r","a","n","s","l","a","t","e">>, <<"c","l","a","s","s","i","f","y">>, <<"c","a","t","e","g","o","r","i","z","e">> >>

requiresToolUse(text) ==
    \E k \in 1..Len(toolPatterns) : Contains(text, toolPatterns[k])

scoreToTier(score) ==
    IF score < 25 THEN TierSimple
    ELSE IF score < 50 THEN TierModerate
    ELSE TierComplex

LengthPoints(combined) ==
    LET wordCount == WordCount(combined) IN
    IF wordCount > 200 THEN 25
    ELSE IF wordCount > 100 THEN 15
    ELSE IF wordCount > 50 THEN 5
    ELSE 0

RECURSIVE SumPoints(_)
SumPoints(S) ==
    IF S = {} THEN 0
    ELSE LET p == CHOOSE x \in S : TRUE IN p[2] + SumPoints(S \ {p})

ComplexPoints(combined) ==
    SumPoints({p \in complexPatterns : Contains(combined, p[1])})

MultiStepPoints(combined) ==
    IF \E k \in 1..Len(multiStepPatterns) : Contains(combined, multiStepPatterns[k])
    THEN 25 ELSE 0

NumberedListPoints(combined) ==
    IF CountNumberedItems(combined, 1) > 2 THEN 10 ELSE 0

SimplePoints(combined) ==
    IF \E k \in 1..Len(simplePatterns) : Contains(combined, simplePatterns[k])
    THEN 0 - 10 ELSE 0

\* the loop over the labels: repeated clamping, in label order
\* ApplyLabelHints that honours only the tier:fast and tier:cheap labels
ApplyLabelHintsCheapOnly(score, labels, k) ==
    IF \E i \in k..Len(labels) : labels[i] \in {"tier:fast", "tier:cheap"}
    THEN Min(score, 30) ELSE score

RECURSIVE ApplyLabelHints(_, _, _)
ApplyLabelHints(score, labels, k) ==
    IF k > Len(labels) THEN score
    ELSE IF labels[k] \in {"tier:fast", "tier:cheap"}
         THEN ApplyLabelHints(Min(score, 30), labels, k + 1)
    ELSE IF labels[k] \in {"tier:quality", "tier:powerful"}
         THEN ApplyLabelHints(Max(score, 60), labels, k + 1)
    ELSE ApplyLabelHints(score, labels, k + 1)

\* ClampScore without the lower clamp
ClampScoreUpperOnly(score) == IF score > 100 THEN 100 ELSE score

ClampScore(score) ==
    IF score < 0 THEN 0 ELSE IF score > 100 THEN 100 ELSE score

\* The score before the label hints and the final clamp.
RawScore(combined) ==
    LengthPoints(combined) + ComplexPoints(combined) + MultiStepPoints(combined)
        + NumberedListPoints(combined) + SimplePoints(combined)

\* Combined without the lower-casing
CombinedAsWritten(title, description) == title \o <<" ">> \o description

Combined(title, description) == ToLower(title \o <<" ">> \o description)

\* Analyze that looks at the title only
AnalyzeTitleOnly(title, description, labels) ==
    LET combined == Combined(title, <<>>) IN
    IF requiresToolUse(combined)
    THEN [Score |-> 100, MinTier |-> TierCLI, RequiresToolUse |-> TRUE]
    ELSE LET score == ClampScore(ApplyLabelHints(RawScore(combined), labels, 1)) IN
         [Score |-> score, MinTier |-> scoreToTier(score), RequiresToolUse |-> FALSE]

Analyze(title, description, labels) ==
    LET combined == Combined(title, description) IN
    IF requiresToolUse(combined)
    THEN [Score |-> 100, MinTier |-> TierCLI, RequiresToolUse |-> TRUE]
    ELSE LET score == ClampScore(ApplyLabelHints(RawScore(combined), labels, 1)) IN
         [Score |-> score, MinTier |-> scoreToTier(score), RequiresToolUse |-> FALSE]

\* ------------------------------------------------------------------------
\* Model selection (internal/backend/analyzer.go)
\* ------------------------------------------------------------------------

IntentAuto == "auto"
IntentFast == "fast"
IntentCheap == "cheap"
IntentBalanced == "balanced"
IntentQuality == "quality"

\* CostPer1K is in units of 0.0001 USD.
ModelCapabilities == <<
    [Backend |-> "grok", Model |-> "grok-3-mini", Tier |-> TierSimple, CostPer1K |-> 1, SpeedScore |-> 9],
    [Backend |-> "bedrock", Model |-> "haiku", Tier |-> TierSimple, CostPer1K |-> 10, SpeedScore |-> 8],
    [Backend |-> "grok", Model |-> "grok-3", Tier |-> TierModerate, CostPer1K |-> 100, SpeedScore |-> 7],
    [Backend |-> "bedrock", Model |-> "sonnet", Tier |-> TierModerate, CostPer1K |-> 90, SpeedScore |-> 6],
    [Backend |-> "bedrock", Model |-> "opus", Tier |-> TierComplex, CostPer1K |-> 450, SpeedScore |-> 4] >>

\* the nil *ModelCapability
NoModel == [Backend |-> "", Model |-> "", Tier |-> 0 - 1, CostPer1K |-> 0, SpeedScore |-> 0]

ExtractIntent(labels) ==
    LET hits == {k \in 1..Len(labels) :
                    labels[k] \in {"tier:fast", "tier:cheap", "tier:balanced",
                                   "tier:quality", "tier:powerful"}} IN
    IF hits = {} THEN IntentAuto
    ELSE LET label == labels[CHOOSE k \in hits : \A j \in hits : k <= j] IN
         IF label = "tier:fast" THEN IntentFast
         ELSE IF label = "tier:cheap" THEN IntentCheap
         ELSE IF label = "tier:balanced" THEN IntentBalanced
         ELSE IntentQuality

\* the minimum tier after the intent's adjustment
EffectiveMinTier(minTier, intent) ==
    IF intent \in {IntentFast, IntentCheap}
    THEN (IF minTier > TierSimple THEN minTier - 1 ELSE minTier)
    ELSE IF intent = IntentQuality
    THEN (IF minTier < TierComplex THEN minTier + 1 ELSE minTier)
    ELSE minTier

\* IsCandidate with the tier compared strictly
IsCandidateAboveTier(cap, minTier, available) ==
    cap.Tier > minTier /\ cap.Backend \in available

IsCandidate(cap, minTier, available) ==
    cap.Tier >= minTier /\ cap.Backend \in available

\* Better that compares the cost whatever the intent
BetterByCostOnly(c, best, intent) == c.CostPer1K < best.CostPer1K

\* whether candidate c replaces the best one found so far
Better(c, best, intent) ==
    IF intent = IntentFast
    THEN c.SpeedScore > best.SpeedScore
    ELSE c.CostPer1K < best.CostPer1K

\* the loop over candidates[1:], best starting as candidates[0]
RECURSIVE PickBest(_, _, _, _)
PickBest(candidates, k, best, intent) ==
    IF k > Len(candidates) THEN best
    ELSE PickBest(candidates, k + 1,
                  IF Better(candidates[k], best, intent) THEN candidates[k] ELSE best,
                  intent)

SelectModel(complexity, intent, available) ==
    IF complexity.RequiresToolUse THEN NoModel
    ELSE LET minTier == EffectiveMinTier(complexity.MinTier, intent)
             candidates == SelectSeq(ModelCapabilities,
                                     LAMBDA cap : IsCandidate(cap, minTier, available))
         IN IF Len(candidates) = 0 THEN NoModel
            ELSE PickBest(candidates, 2, candidates[1], intent)

\* ------------------------------------------------------------------------
\* Router (Route and its helpers) and registry
\* ------------------------------------------------------------------------

RouteAPI == "api"
RouteCLI == "cli"

\* the legacy tag table: tag -> <<backend, model>>
TierToBackend == [
    haiku |-> <<"bedrock", "haiku">>,
    sonnet |-> <<"bedrock", "sonnet">>,
    opus |-> <<"bedrock", "opus">>] @@
    ("grok-fast" :> <<"grok", "grok-3-mini">>) @@
    ("grok" :> <<"grok", "grok-3">>) @@
    ("grok-4" :> <<"grok", "grok-4">>) @@
    ("gpt4" :> <<"openai", "gpt-4o">>) @@
    ("o1" :> <<"openai", "o1">>) @@
    ("o3-mini" :> <<"openai", "o3-mini">>)

\* the nil *RouteResult of the legacy steps
NoResult == [Decision |-> "none"]

\* the nil *RoutingHints
NilHints == [nil |-> TRUE]

EmptyHints == [Title |-> <<>>, Description |-> <<>>, Tier |-> <<>>, ModelTag |-> "",
               Intent |-> "", EstimatedTokens |-> 0, Labels |-> <<>>]

Result(decision, backend, model, reason, fallback) ==
    [Decision |-> decision, Backend |-> backend, Model |-> model,
     Reason |-> reason, FallbackToCLI |-> fallback]

TierString(t) ==
    IF t = TierSimple THEN "simple"
    ELSE IF t = TierModerate THEN "moderate"
    ELSE IF t = TierComplex THEN "complex"
    ELSE IF t = TierCLI THEN "cli"
    ELSE "unknown"

\* Reason strings are the sequence of the pieces the code concatenates.
buildReason(complexity, intent, selected) ==
    <<"complexity=", TierString(complexity.MinTier)>>
    \o (IF intent # IntentAuto THEN <<", ", "intent=", intent>> ELSE <<>>)
    \o <<", ", "selected=", selected.Backend, "/", selected.Model>>

\* findFallbackForTag that asks for a Simple model whatever the tag
findFallbackForTagSimpleTier(config, registry, tag) ==
    LET intent == IF tag \in {"grok-fast", "haiku"} THEN IntentCheap
                  ELSE IF tag \in {"grok", "sonnet"} THEN IntentBalanced
                  ELSE IF tag \in {"opus", "grok-4"} THEN IntentQuality
                  ELSE IntentAuto
        complexity == [Score |-> 0, MinTier |-> TierSimple, RequiresToolUse |-> FALSE]
        selected == SelectModel(complexity, intent, registry)
    IN IF selected = NoModel THEN NoResult
       ELSE Result(RouteAPI, selected.Backend, selected.Model,
                   <<"fallback from ", tag, " to ", selected.Backend, "/", selected.Model>>,
                   config.FallbackToCLI)

findFallbackForTag(config, registry, tag) ==
    LET intent == IF tag \in {"grok-fast", "haiku"} THEN IntentCheap
                  ELSE IF tag \in {"grok", "sonnet"} THEN IntentBalanced
                  ELSE IF tag \in {"opus", "grok-4"} THEN IntentQuality
                  ELSE IntentAuto
        minTier == IF intent = IntentQuality THEN TierComplex
                   ELSE IF intent = IntentBalanced THEN TierModerate
                   ELSE TierSimple
        complexity == [Score |-> 0, MinTier |-> minTier, RequiresToolUse |-> FALSE]
        selected == SelectModel(complexity, intent, registry)
    IN IF selected = NoModel THEN NoResult
       ELSE Result(RouteAPI, selected.Backend, selected.Model,
                   <<"fallback from ", tag, " to ", selected.Backend, "/", selected.Model>>,
                   config.FallbackToCLI)

\* routeByModelTag that leaves FallbackToCLI unset for a backend-name tag
routeByModelTagBackendNoFlag(config, registry, tag) ==
    IF tag \in DOMAIN TierToBackend
    THEN LET mapping == TierToBackend[tag] IN
         IF mapping[1] \in registry
         THEN Result(RouteAPI, mapping[1], mapping[2],
                     <<"legacy model tag: ", tag>>, config.FallbackToCLI)
         ELSE findFallbackForTag(config, registry, tag)
    ELSE IF tag \in registry
    THEN Result(RouteAPI, tag, "", <<"legacy model tag (backend): ", tag>>, FALSE)
    ELSE NoResult

routeByModelTag(config, registry, tag) ==
    IF tag \in DOMAIN TierToBackend
    THEN LET mapping == TierToBackend[tag] IN
         IF mapping[1] \in registry
         THEN Result(RouteAPI, mapping[1], mapping[2],
                     <<"legacy model tag: ", tag>>, config.FallbackToCLI)
         ELSE findFallbackForTag(config, registry, tag)
    ELSE IF tag \in registry
    THEN Result(RouteAPI, tag, "", <<"legacy model tag (backend): ", tag>>,
                config.FallbackToCLI)
    ELSE NoResult

\* routeByLegacyTier without the lower-casing of the tier
routeByLegacyTierAsWritten(config, registry, tierIn) ==
    LET tier == tierIn IN
    IF tier \notin {<<"h","a","i","k","u">>, <<"s","o","n","n","e","t">>, <<"o","p","u","s">>} THEN NoResult
    ELSE LET intent == IF tier = <<"h","a","i","k","u">> THEN IntentCheap
                       ELSE IF tier = <<"s","o","n","n","e","t">> THEN IntentBalanced
                       ELSE IntentQuality
             minTier == IF tier = <<"h","a","i","k","u">> THEN TierSimple
                        ELSE IF tier = <<"s","o","n","n","e","t">> THEN TierModerate
                        ELSE TierComplex
             complexity == [Score |-> 0, MinTier |-> minTier, RequiresToolUse |-> FALSE]
             selected == SelectModel(complexity, intent, registry)
         IN IF selected = NoModel
            THEN Result(RouteCLI, "", "",
                        <<"no API model available for tier: ">> \o tier, FALSE)
            ELSE Result(RouteAPI, selected.Backend, selected.Model,
                        <<"legacy tier: ">> \o tier
                            \o <<" -> ", selected.Backend, "/", selected.Model>>,
                        config.FallbackToCLI)

routeByLegacyTier(config, registry, tierIn) ==
    LET tier == ToLower(tierIn) IN
    IF tier \notin {<<"h","a","i","k","u">>, <<"s","o","n","n","e","t">>, <<"o","p","u","s">>} THEN NoResult
    ELSE LET intent == IF tier = <<"h","a","i","k","u">> THEN IntentCheap
                       ELSE IF tier = <<"s","o","n","n","e","t">> THEN IntentBalanced
                       ELSE IntentQuality
             minTier == IF tier = <<"h","a","i","k","u">> THEN TierSimple
                        ELSE IF tier = <<"s","o","n","n","e","t">> THEN TierModerate
                        ELSE TierComplex
             complexity == [Score |-> 0, MinTier |-> minTier, RequiresToolUse |-> FALSE]
             selected == SelectModel(complexity, intent, registry)
         IN IF selected = NoModel
            THEN Result(RouteCLI, "", "",
                        <<"no API model available for tier: ">> \o tier, FALSE)
            ELSE Result(RouteAPI, selected.Backend, selected.Model,
                        <<"legacy tier: ">> \o tier
                            \o <<" -> ", selected.Backend, "/", selected.Model>>,
                        config.FallbackToCLI)

\* RouteByAnalysis with the registry looked at before the token threshold
RouteByAnalysisRegistryFirst(config, registry, hints, intent) ==
    LET complexity == Analyze(hints.Title, hints.Description, hints.Labels) IN
    IF complexity.RequiresToolUse
    THEN Result(RouteCLI, "", "",
                <<"task requires tool use (file operations, git, etc.)">>, FALSE)
    ELSE IF registry = {}
    THEN Result(RouteCLI, "", "", <<"no API backends available">>, FALSE)
    ELSE IF hints.EstimatedTokens > 0 /\ hints.EstimatedTokens > config.TokenThreshold
    THEN Result(RouteCLI, "", "", <<"exceeds token threshold">>, FALSE)
    ELSE LET selected == SelectModel(complexity, intent, registry) IN
         IF selected = NoModel
         THEN Result(RouteCLI, "", "",
                     <<"no suitable model available for task complexity">>, TRUE)
         ELSE Result(RouteAPI, selected.Backend, selected.Model,
                     buildReason(complexity, intent, selected), config.FallbackToCLI)

\* steps 5 to 9 of Route: the analysis of the task and what follows it
RouteByAnalysis(config, registry, hints, intent) ==
    LET complexity == Analyze(hints.Title, hints.Description, hints.Labels) IN
    IF complexity.RequiresToolUse
    THEN Result(RouteCLI, "", "",
                <<"task requires tool use (file operations, git, etc.)">>, FALSE)
    ELSE IF hints.EstimatedTokens > 0 /\ hints.EstimatedTokens > config.TokenThreshold
    THEN Result(RouteCLI, "", "", <<"exceeds token threshold">>, FALSE)
    ELSE IF registry = {}
    THEN Result(RouteCLI, "", "", <<"no API backends available">>, FALSE)
    ELSE LET selected == SelectModel(complexity, intent, registry) IN
         IF selected = NoModel
         THEN Result(RouteCLI, "", "",
                     <<"no suitable model available for task complexity">>, TRUE)
         ELSE Result(RouteAPI, selected.Backend, selected.Model,
                     buildReason(complexity, intent, selected), config.FallbackToCLI)

\* steps 3 and 4 of Route: the legacy model tag, then the legacy tier
RouteEnabled(config, registry, hints) ==
    LET fromLabels == ExtractIntent(hints.Labels)
        intent == IF fromLabels = IntentAuto /\ hints.Intent # ""
                  THEN hints.Intent ELSE fromLabels
        byTag == IF hints.ModelTag # ""
                 THEN routeByModelTag(config, registry, hints.ModelTag)
                 ELSE NoResult
        byTier == IF hints.Tier # <<>>
                  THEN routeByLegacyTier(config, registry, hints.Tier)
                  ELSE NoResult
    IN IF byTag # NoResult THEN byTag
       ELSE IF byTier # NoResult THEN byTier
       ELSE RouteByAnalysis(config, registry, hints, intent)

\* Route with the enabled check after the legacy steps
RouteLegacyFirst(config, registry, hintsIn) ==
    LET hints == IF hintsIn = NilHints THEN EmptyHints ELSE hintsIn
        byTag == IF hints.ModelTag # ""
                 THEN routeByModelTag(config, registry, hints.ModelTag)
                 ELSE NoResult
    IN IF byTag # NoResult THEN byTag
       ELSE IF ~config.Enabled
       THEN Result(RouteCLI, "", "", <<"hybrid routing disabled">>, FALSE)
       ELSE RouteEnabled(config, registry, hints)

Route(config, registry, hintsIn) ==
    IF ~config.Enabled
    THEN Result(RouteCLI, "", "", <<"hybrid routing disabled">>, FALSE)
    ELSE RouteEnabled(config, registry,
                      IF hintsIn = NilHints THEN EmptyHints ELSE hintsIn)

\* ------------------------------------------------------------------------
\* Context manager (internal/backend/context.go)
\* ------------------------------------------------------------------------

TruncateOldest == "truncate_oldest"
TruncateMiddle == "truncate_middle"
TruncateLongest == "truncate_longest"

RoleSystem == <<"s","y","s","t","e","m">>
RoleUser == <<"u","s","e","r">>
RoleAssistant == <<"a","s","s","i","s","t","a","n","t">>

Message(role, content) == [Role |-> role, Content |-> content]

\* a returned ([]Message, error): Err is "" for a nil error
Prepared(messages, err) == [Messages |-> messages, Err |-> err]

estimateMessageTokens(msg) == (Len(msg.Content) + Len(msg.Role) + 10) \div 4

RECURSIVE estimateTokens(_)
estimateTokens(messages) ==
    IF messages = <<>> THEN 0
    ELSE estimateMessageTokens(Head(messages)) + estimateTokens(Tail(messages))

truncateMessage(msg, maxTokens) ==
    LET maxChars == maxTokens * 4 IN
    IF Len(msg.Content) <= maxChars THEN msg
    ELSE Message(msg.Role, SubSeq(msg.Content, 1, maxChars - 3) \o <<".",".",".">>)

\* the split of the list into the system message at index 0 and the rest
HasSystemMsg(messages) == messages # <<>> /\ messages[1].Role = RoleSystem

Conversation(messages) ==
    IF HasSystemMsg(messages) THEN Tail(messages) ELSE messages

\* WithSystem that leaves the system message out
WithoutSystem(messages, result) == result

WithSystem(messages, result) ==
    IF HasSystemMsg(messages) THEN <<messages[1]>> \o result ELSE result

\* KeepRecent that passes over a message that does not fit and goes on to the
\* older ones
RECURSIVE KeepRecentSkipping(_, _, _, _, _)
KeepRecentSkipping(conversation, i, result, currentTokens, available) ==
    IF i < 1 THEN result
    ELSE LET msgTokens == estimateMessageTokens(conversation[i]) IN
         IF currentTokens + msgTokens > available
         THEN KeepRecentSkipping(conversation, i - 1, result, currentTokens, available)
         ELSE KeepRecentSkipping(conversation, i - 1, <<conversation[i]>> \o result,
                                 currentTokens + msgTokens, available)

\* the loop of truncateOldest from index i down: result is what is kept so far
RECURSIVE KeepRecent(_, _, _, _, _)
KeepRecent(conversation, i, result, currentTokens, available) ==
    IF i < 1 THEN result
    ELSE LET msgTokens == estimateMessageTokens(conversation[i]) IN
         IF currentTokens + msgTokens > available THEN result
         ELSE KeepRecent(conversation, i - 1, <<conversation[i]>> \o result,
                         currentTokens + msgTokens, available)

truncateOldest(messages, maxTokens) ==
    IF Len(messages) < 2 THEN Prepared(messages, "")
    ELSE LET conversation == Conversation(messages)
             systemTokens == IF HasSystemMsg(messages)
                             THEN estimateMessageTokens(messages[1]) ELSE 0
             availableForConversation == maxTokens - systemTokens
         IN IF availableForConversation <= 0
            THEN IF HasSystemMsg(messages)
                 THEN Prepared(<<truncateMessage(messages[1], maxTokens)>>, "")
                 ELSE Prepared(<<>>, "cannot fit any messages")
            ELSE Prepared(WithSystem(messages,
                              KeepRecent(conversation, Len(conversation), <<>>, 0,
                                         availableForConversation)), "")

\* kept with x inserted so that it becomes the element at 0-based index at
InsertAt(kept, at, x) ==
    SubSeq(kept, 1, at) \o <<x>> \o SubSeq(kept, at + 1, Len(kept))

\* The second half of one round of the loop of truncateMiddle: the message
\* at the right end.  left and right are the code's 0-based indices.
RECURSIVE MiddleFromLeft(_, _, _, _, _, _)
MiddleFromRight(middle, kept, left, right, currentTokens, remaining) ==
    IF left > right THEN kept
    ELSE LET rightTokens == estimateMessageTokens(middle[right + 1]) IN
         IF currentTokens + rightTokens <= remaining
         THEN MiddleFromLeft(middle, InsertAt(kept, left, middle[right + 1]),
                             left, right - 1, currentTokens + rightTokens, remaining)
         ELSE kept

\* The loop of truncateMiddle, from its head: the message at the left end.
MiddleFromLeft(middle, kept, left, right, currentTokens, remaining) ==
    IF left > right THEN kept
    ELSE LET leftTokens == estimateMessageTokens(middle[left + 1]) IN
         IF currentTokens + leftTokens <= remaining
         THEN MiddleFromRight(middle, Append(kept, middle[left + 1]),
                              left + 1, right, currentTokens + leftTokens, remaining)
         ELSE kept

truncateMiddle(messages, maxTokens) ==
    LET conversation == Conversation(messages) IN
    IF Len(messages) <= 2 THEN Prepared(messages, "")
    ELSE IF Len(conversation) <= 2
    THEN Prepared(WithSystem(messages, conversation), "")
    ELSE LET systemTokens == IF HasSystemMsg(messages)
                             THEN estimateMessageTokens(messages[1]) ELSE 0
             availableForConversation == maxTokens - systemTokens
             first == conversation[1]
             last == conversation[Len(conversation)]
             remaining == availableForConversation - estimateMessageTokens(first)
                              - estimateMessageTokens(last)
             middle == SubSeq(conversation, 2, Len(conversation) - 1)
         IN IF remaining <= 0
            THEN Prepared(WithSystem(messages, <<first, last>>), "")
            ELSE Prepared(WithSystem(messages,
                              <<first>>
                              \o MiddleFromLeft(middle, <<>>, 0, Len(middle) - 1, 0, remaining)
                              \o <<last>>), "")

\* index of the longest non-system message (the first among equals), 0 if no
\* non-system message has content
LongestIdx(msgs) ==
    LET cand == {i \in 1..Len(msgs) :
                    msgs[i].Role # RoleSystem /\ Len(msgs[i].Content) > 0} IN
    IF cand = {} THEN 0
    ELSE CHOOSE i \in cand :
            \A j \in cand :
                \/ Len(msgs[j].Content) < Len(msgs[i].Content)
                \/ (Len(msgs[j].Content) = Len(msgs[i].Content) /\ i <= j)

RemoveAt(msgs, i) == SubSeq(msgs, 1, i - 1) \o SubSeq(msgs, i + 1, Len(msgs))

RECURSIVE DropLongest(_, _)
DropLongest(msgs, maxTokens) ==
    IF estimateTokens(msgs) > maxTokens /\ Len(msgs) > 1
    THEN LET longestIdx == LongestIdx(msgs) IN
         IF longestIdx = 0 THEN msgs
         ELSE DropLongest(RemoveAt(msgs, longestIdx), maxTokens)
    ELSE msgs

truncateLongest(messages, maxTokens) == Prepared(DropLongest(messages, maxTokens), "")

ApplyStrategy(cm, messages, availableTokens, strategyIn) ==
    LET strategy == IF strategyIn = "" THEN cm.DefaultStrategy ELSE strategyIn IN
    IF strategy = TruncateOldest THEN truncateOldest(messages, availableTokens)
    ELSE IF strategy = TruncateMiddle THEN truncateMiddle(messages, availableTokens)
    ELSE IF strategy = TruncateLongest THEN truncateLongest(messages, availableTokens)
    ELSE truncateOldest(messages, availableTokens)

\* PrepareContext with the reserve taken off twice
PrepareContextReserveTwice(cm, messages, maxTokens, strategy) ==
    IF Len(messages) = 0 THEN Prepared(messages, "")
    ELSE LET currentTokens == estimateTokens(messages)
             availableTokens == maxTokens - cm.ReserveTokens - cm.ReserveTokens
         IN IF availableTokens <= 0
            THEN Prepared(<<>>, "max_tokens too small for response reserve")
            ELSE IF currentTokens <= availableTokens
            THEN Prepared(messages, "")
            ELSE ApplyStrategy(cm, messages, availableTokens, strategy)

PrepareContext(cm, messages, maxTokens, strategy) ==
    IF Len(messages) = 0 THEN Prepared(messages, "")
    ELSE LET currentTokens == estimateTokens(messages)
             availableTokens == maxTokens - cm.ReserveTokens
         IN IF availableTokens <= 0
            THEN Prepared(<<>>, "max_tokens too small for response reserve")
            ELSE IF currentTokens <= availableTokens
            THEN Prepared(messages, "")
            ELSE ApplyStrategy(cm, messages, availableTokens, strategy)

\* ------------------------------------------------------------------------
\* State
\* ------------------------------------------------------------------------

VARIABLES
    call,       \* the pending call of a pure function: its name and arguments
    ret,        \* what the call returned, NoRet before it has run
    ct,         \* the CostTracker: entries, total, and the holder of mu
    recorder,   \* per goroutine: its position in CostTracker.Record
    recorded,   \* history: the arguments of the Record calls that have returned
    now,        \* the wall clock, in ticks
    limiter,    \* the rateLimiter of one backend, and the holder of its mu
    caller,     \* per goroutine: its position in Wait or Invoke
    stream      \* per goroutine: the channel of its InvokeStream call, its producer
                \* and its consumer

pureVars == <<call, ret>>

costVars == <<ct, recorder, recorded>>

invokeVars == <<now, limiter, caller>>

streamVars == <<stream>>

vars == <<call, ret, ct, recorder, recorded, now, limiter, caller, stream>>

NoCall == [op |-> "none"]

NoRet == [returned |-> FALSE]

\* ------------------------------------------------------------------------
\* Cost tracker (CostTracker and its methods)
\* ------------------------------------------------------------------------

NumRecorders == 2

MaxRecords == 3

Recorders == 1..NumRecorders

\* NewCostTracker: no entries, total 0, mu free (0)
NewCostTracker == [entries |-> <<>>, total |-> 0, mu |-> 0]

\* the arguments of a Record call: backend, model, the result's token counts
\* and the estimate's TotalCost
RecordArgs == {
    [Backend |-> "grok", Model |-> "grok-3", InputTokens |-> 1, OutputTokens |-> 1, TotalCost |-> 1],
    [Backend |-> "grok", Model |-> "grok-3-mini", InputTokens |-> 2, OutputTokens |-> 1, TotalCost |-> 2],
    [Backend |-> "bedrock", Model |-> "haiku", InputTokens |-> 1, OutputTokens |-> 2, TotalCost |-> 2] }

NoArg == [Backend |-> "", Model |-> "", InputTokens |-> 0, OutputTokens |-> 0, TotalCost |-> 0]

IdleRecorder == [pc |-> "idle", arg |-> NoArg, tmp |-> 0]

\* no goroutine is inside a method of the tracker
CostQuiescent == \A p \in Recorders : recorder[p].pc = "idle"

InitCost ==
    /\ ct = NewCostTracker
    /\ recorder = [p \in Recorders |-> IdleRecorder]
    /\ recorded = <<>>

\* the tracker as the other specifications hold it: never called
CostIdle ==
    /\ ct = NewCostTracker
    /\ recorder = [p \in Recorders |-> [IdleRecorder EXCEPT !.pc = "off"]]
    /\ recorded = <<>>

\* a mutex that any number of goroutines can hold
MuNeverHeld == TRUE

\* ct.mu.Lock() can return
MuFree == ct.mu = 0

\* a goroutine calls Record(backend, model, result, cost)
RecordCall(p, a) ==
    /\ recorder[p].pc = "idle"
    /\ Len(recorded) + Cardinality({q \in Recorders : recorder[q].pc # "idle"}) < MaxRecords
    /\ recorder' = [recorder EXCEPT ![p] = [pc |-> "lock", arg |-> a, tmp |-> 0]]
    /\ UNCHANGED <<ct, recorded>>
    /\ UNCHANGED <<pureVars, invokeVars, streamVars>>

\* ct.mu.Lock()
RecordLock(p) ==
    /\ recorder[p].pc = "lock"
    /\ MuFree
    /\ ct' = [ct EXCEPT !.mu = p]
    /\ recorder' = [recorder EXCEPT ![p].pc = "append"]
    /\ UNCHANGED recorded
    /\ UNCHANGED <<pureVars, invokeVars, streamVars>>

\* ct.entries = append(ct.entries, entry)
RecordAppend(p) ==
    /\ recorder[p].pc = "append"
    /\ ct' = [ct EXCEPT !.entries = Append(@, recorder[p].arg)]
    /\ recorder' = [recorder EXCEPT ![p].pc = "load"]
    /\ UNCHANGED recorded
    /\ UNCHANGED <<pureVars, invokeVars, streamVars>>

\* ct.total += cost.TotalCost: the read of ct.total ...
RecordLoadTotal(p) ==
    /\ recorder[p].pc = "load"
    /\ recorder' = [recorder EXCEPT ![p].pc = "store", ![p].tmp = ct.total]
    /\ UNCHANGED <<ct, recorded>>
    /\ UNCHANGED <<pureVars, invokeVars, streamVars>>

\* ... and the write of the sum
RecordStoreTotal(p) ==
    /\ recorder[p].pc = "store"
    /\ ct' = [ct EXCEPT !.total = recorder[p].tmp + recorder[p].arg.TotalCost]
    /\ recorder' = [recorder EXCEPT ![p].pc = "unlock"]
    /\ UNCHANGED recorded
    /\ UNCHANGED <<pureVars, invokeVars, streamVars>>

\* the threshold checks only log; the deferred ct.mu.Unlock() and the return
RecordReturn(p) ==
    /\ recorder[p].pc = "unlock"
    /\ ct' = [ct EXCEPT !.mu = 0]
    /\ recorder' = [recorder EXCEPT ![p] = IdleRecorder]
    /\ recorded' = Append(recorded,
           [arg |-> recorder[p].arg,
            overlapped |-> \E q \in Recorders \ {p} : recorder[q].pc # "idle"])
    /\ UNCHANGED <<pureVars, invokeVars, streamVars>>

\* Total(), taken when no writer holds mu
Total == ct.total

\* Summary(): the entries aggregated by backend
RECURSIVE SummaryOf(_, _)
SummaryOf(entries, backend) ==
    IF entries = <<>>
    THEN [Invocations |-> 0, InputTokens |-> 0, OutputTokens |-> 0, TotalCost |-> 0]
    ELSE LET s == SummaryOf(Tail(entries), backend)
             e == Head(entries)
         IN IF e.Backend # backend THEN s
            ELSE [Invocations |-> s.Invocations + 1,
                  InputTokens |-> s.InputTokens + e.InputTokens,
                  OutputTokens |-> s.OutputTokens + e.OutputTokens,
                  TotalCost |-> s.TotalCost + e.TotalCost]

Summary ==
    [b \in {ct.entries[i].Backend : i \in 1..Len(ct.entries)} |->
        SummaryOf(ct.entries, b)]

NextCost ==
    \/ \E p \in Recorders, a \in RecordArgs : RecordCall(p, a)
    \/ \E p \in Recorders : RecordLock(p)
    \/ \E p \in Recorders : RecordAppend(p)
    \/ \E p \in Recorders : RecordLoadTotal(p)
    \/ \E p \in Recorders : RecordStoreTotal(p)
    \/ \E p \in Recorders : RecordReturn(p)

\* a goroutine calls Reset() and its ct.mu.Lock() returns
ResetLock(p) ==
    /\ recorder[p].pc = "idle"
    /\ MuFree
    /\ ct' = [ct EXCEPT !.mu = p]
    /\ recorder' = [recorder EXCEPT ![p] =
                       [pc |-> "resetEntries", arg |-> NoArg, tmp |-> 0]]
    /\ UNCHANGED recorded
    /\ UNCHANGED <<pureVars, invokeVars, streamVars>>

\* ct.entries = make([]CostEntry, 0)
ResetEntries(p) ==
    /\ recorder[p].pc = "resetEntries"
    /\ ct' = [ct EXCEPT !.entries = <<>>]
    /\ recorder' = [recorder EXCEPT ![p].pc = "resetTotal"]
    /\ UNCHANGED recorded
    /\ UNCHANGED <<pureVars, invokeVars, streamVars>>

\* ResetTotal that leaves the running total as it is
ResetTotalSkipped(p) ==
    /\ recorder[p].pc = "resetTotal"
    /\ recorder' = [recorder EXCEPT ![p].pc = "resetUnlock"]
    /\ UNCHANGED <<ct, recorded>>
    /\ UNCHANGED <<pureVars, invokeVars, streamVars>>

\* ct.total = 0
ResetTotal(p) ==
    /\ recorder[p].pc = "resetTotal"
    /\ ct' = [ct EXCEPT !.total = 0]
    /\ recorder' = [recorder EXCEPT ![p].pc = "resetUnlock"]
    /\ UNCHANGED recorded
    /\ UNCHANGED <<pureVars, invokeVars, streamVars>>

\* the deferred ct.mu.Unlock() and the return of Reset
ResetReturn(p) ==
    /\ recorder[p].pc = "resetUnlock"
    /\ ct' = [ct EXCEPT !.mu = 0]
    /\ recorder' = [recorder EXCEPT ![p] = IdleRecorder]
    /\ UNCHANGED recorded
    /\ UNCHANGED <<pureVars, invokeVars, streamVars>>

\* Entries(), taken when no writer holds mu
Entries == ct.entries

\* Record and Reset calls on one tracker
NextCostReset ==
    \/ NextCost
    \/ \E p \in Recorders : ResetLock(p)
    \/ \E p \in Recorders : ResetEntries(p)
    \/ \E p \in Recorders : ResetTotal(p)
    \/ \E p \in Recorders : ResetReturn(p)


\* FormatSummary, first half: summary := ct.Summary(), a snapshot taken under
\* the read lock
FormatSummaryStart ==
    /\ call = NoCall
    /\ ret = NoRet
    /\ MuFree
    /\ call' = [op |-> "FormatSummary", summary |-> Summary]
    /\ UNCHANGED <<ret, costVars, invokeVars, streamVars>>

\* the report FormatSummary builds from its two reads: "No API costs
\* recorded" for an empty summary, else the header with the total and a line
\* per backend
Report(summary, total) ==
    [none |-> DOMAIN summary = {}, total |-> total, lines |-> summary]

\* FormatSummary, second half: total := ct.Total(), a second read under the
\* read lock, and the report
FormatSummaryFinish ==
    /\ call.op = "FormatSummary"
    /\ ret = NoRet
    /\ MuFree
    /\ ret' = [returned |-> TRUE, value |-> Report(call.summary, Total)]
    /\ UNCHANGED <<call, costVars, invokeVars, streamVars>>

\* Record and Reset calls on a tracker of which one goroutine formats a
\* summary
NextCostReport ==
    \/ NextCostReset
    \/ FormatSummaryStart
    \/ FormatSummaryFinish
\* ------------------------------------------------------------------------
\* Rate limiter and Invoke (internal/backend/claude, bedrock)
\* ------------------------------------------------------------------------

NumCallers == 2

MaxTime == 3

MaxBucket == 2

RefillInterval == 2

MaxAttempts == 3

Callers == 1..NumCallers

\* the backends whose Invoke is modelled
BackendKinds == {"claude", "bedrock"}

\* the nil *http.Response, *InvokeModelOutput and error
NoResp == [status |-> 0, closed |-> FALSE, attempt |-> 0]

NoErr == [attempt |-> 0, failure |-> "none"]

NoOutcome == [returned |-> FALSE, ok |-> FALSE, err |-> "", cause |-> NoErr]

\* what Wait or Invoke returned
Returned(ok, err, cause) == [returned |-> TRUE, ok |-> ok, err |-> err, cause |-> cause]

\* newRateLimiter(maxTokens, interval) at time 0, after taken Waits have
\* each taken a token at time 0
newRateLimiter(maxTokens, interval, taken) ==
    [tokens |-> maxTokens - taken, maxTokens |-> maxTokens,
     refillInterval |-> interval, lastRefill |-> 0, mu |-> 0]

\* a goroutine that has not called yet
NewCaller(entry) ==
    [pc |-> "idle", entry |-> entry, ctxDone |-> FALSE, firedWaiting |-> FALSE,
     woken |-> "none", deadline |-> 0, attempt |-> 0, lastErr |-> NoErr,
     resp |-> NoResp, unparsable |-> FALSE, outcomes |-> <<>>, result |-> NoOutcome]

\* the buffer size of the channel InvokeStream makes
ChanCap == 1

\* a goroutine that has not called InvokeStream
NoStream ==
    [pc |-> "off", ch |-> <<>>, closed |-> FALSE, sent |-> <<>>,
     consumer |-> "off", received |-> <<>>]

StreamIdle == stream = [p \in Callers |-> NoStream]

InvokeIdle ==
    /\ StreamIdle
    /\ now = 0
    /\ limiter = newRateLimiter(1, RefillInterval, 0)
    /\ caller = [p \in Callers |-> [NewCaller("none") EXCEPT !.pc = "off"]]

\* Refill whose partial refill rounds up
RefillRoundingUp(l, t) ==
    LET elapsed == t - l.lastRefill IN
    IF elapsed >= l.refillInterval
    THEN [l EXCEPT !.tokens = l.maxTokens, !.lastRefill = t]
    ELSE LET refillAmount ==
                 (l.maxTokens * elapsed + l.refillInterval - 1) \div l.refillInterval IN
         [l EXCEPT !.tokens = Min(l.maxTokens, l.tokens + refillAmount),
                   !.lastRefill = IF refillAmount > 0 THEN t ELSE l.lastRefill]

\* Refill whose partial refill is not capped at maxTokens
RefillUncapped(l, t) ==
    LET elapsed == t - l.lastRefill IN
    IF elapsed >= l.refillInterval
    THEN [l EXCEPT !.tokens = l.maxTokens, !.lastRefill = t]
    ELSE LET refillAmount == (l.maxTokens * elapsed) \div l.refillInterval IN
         [l EXCEPT !.tokens = l.tokens + refillAmount,
                   !.lastRefill = IF refillAmount > 0 THEN t ELSE l.lastRefill]

\* Refill whose partial refill ignores how much time has passed
RefillIgnoringElapsed(l, t) ==
    LET elapsed == t - l.lastRefill IN
    IF elapsed >= l.refillInterval
    THEN [l EXCEPT !.tokens = l.maxTokens, !.lastRefill = t]
    ELSE LET refillAmount == IF elapsed > 0 THEN l.maxTokens ELSE 0 IN
         [l EXCEPT !.tokens = Min(l.maxTokens, l.tokens + refillAmount),
                   !.lastRefill = IF refillAmount > 0 THEN t ELSE l.lastRefill]

\* the refill at the head of Wait: the limiter after it, at time t
Refill(l, t) ==
    LET elapsed == t - l.lastRefill IN
    IF elapsed >= l.refillInterval
    THEN [l EXCEPT !.tokens = l.maxTokens, !.lastRefill = t]
    ELSE LET refillAmount == (l.maxTokens * elapsed) \div l.refillInterval IN
         [l EXCEPT !.tokens = Min(l.maxTokens, l.tokens + refillAmount),
                   !.lastRefill = IF refillAmount > 0 THEN t ELSE l.lastRefill]

\* r.mu.Lock() can return
LimiterFree == limiter.mu = 0

\* where a goroutine goes when Wait returns err ("" for nil): Wait's caller
\* is done, Invoke returns a rate limit error or goes on to the request
AfterWait(c, err) ==
    IF c.entry = "Wait"
    THEN [c EXCEPT !.pc = "done", !.result = Returned(err = "", err, NoErr)]
    ELSE IF err # ""
    THEN [c EXCEPT !.pc = "done", !.result = Returned(FALSE, "rate limit: " \o err, NoErr)]
    ELSE [c EXCEPT !.pc = "attempt"]

\* a goroutine calls Wait, directly or at the head of Invoke
WaitCall(p) ==
    /\ caller[p].pc = "idle"
    /\ caller' = [caller EXCEPT ![p].pc = "lock"]
    /\ UNCHANGED <<now, limiter, pureVars, costVars, streamVars>>

\* r.mu.Lock(), the refill, and either a token taken (Wait returns nil, mu
\* unlocked) or the goroutine entering the select with mu held
WaitLock(p) ==
    /\ caller[p].pc = "lock"
    /\ LimiterFree
    /\ LET l == Refill(limiter, now)
           elapsed == now - limiter.lastRefill
       IN IF l.tokens > 0
          THEN /\ limiter' = [l EXCEPT !.tokens = l.tokens - 1]
               /\ caller' = [caller EXCEPT ![p] = AfterWait(caller[p], "")]
          ELSE /\ limiter' = [l EXCEPT !.mu = p]
               /\ caller' = [caller EXCEPT
                      ![p].pc = "select",
                      ![p].deadline = now + (limiter.refillInterval - elapsed),
                      ![p].woken = IF caller[p].ctxDone THEN "ctx" ELSE "none"]
    /\ UNCHANGED <<now, pureVars, costVars, streamVars>>

\* case <-ctx.Done(): return ctx.Err()
WaitCtxDone(p) ==
    /\ caller[p].pc = "select"
    /\ caller[p].woken = "ctx"
    /\ limiter' = [limiter EXCEPT !.mu = 0]
    /\ caller' = [caller EXCEPT ![p] = AfterWait(caller[p], "context canceled")]
    /\ UNCHANGED <<now, pureVars, costVars, streamVars>>

\* case <-time.After(waitTime)
WaitTimer(p) ==
    /\ caller[p].pc = "select"
    /\ caller[p].woken = "timer"
    /\ limiter' = [limiter EXCEPT !.tokens = limiter.maxTokens - 1,
                                  !.lastRefill = now, !.mu = 0]
    /\ caller' = [caller EXCEPT ![p] = AfterWait(caller[p], "")]
    /\ UNCHANGED <<now, pureVars, costVars, streamVars>>

\* The caller's context is cancelled or expires.  A goroutine parked in the
\* select is woken by the first of its two channels to become ready.
Cancel(p) ==
    /\ ~caller[p].ctxDone
    /\ caller[p].pc \notin {"off", "done"}
    /\ caller' = [caller EXCEPT
           ![p].ctxDone = TRUE,
           ![p].firedWaiting =
               \/ (caller[p].pc = "select" /\ caller[p].woken = "none")
               \/ (caller[p].pc = "lock" /\ ~LimiterFree),
           ![p].woken = IF caller[p].pc = "select" /\ caller[p].woken = "none"
                        THEN "ctx" ELSE caller[p].woken]
    /\ UNCHANGED <<now, limiter, pureVars, costVars, streamVars>>

\* time passes; the timer of a parked goroutine fires at its deadline
Tick ==
    /\ now < MaxTime
    /\ now' = now + 1
    /\ caller' = [p \in Callers |->
           IF caller[p].pc = "select" /\ caller[p].woken = "none"
                  /\ now + 1 >= caller[p].deadline
           THEN [caller[p] EXCEPT !.woken = "timer"]
           ELSE caller[p]]
    /\ UNCHANGED <<limiter, pureVars, costVars, streamVars>>

\* what one attempt of the network call can give.  A request whose context
\* is done fails with the context's error.
AttemptOutcomes(c) ==
    IF c.ctxDone THEN {"transport"}
    ELSE IF c.entry = "claude" THEN {"transport", "429", "500", "200", "200-unparsable"}
    ELSE {"transport", "429", "200", "200-unparsable"}

\* the attempt returned an error: client.Do's err # nil, and for bedrock any
\* error of InvokeModel, throttling included
IsErrOutcome(c, outcome) ==
    \/ outcome = "transport"
    \/ (c.entry = "bedrock" /\ outcome = "429")

StatusOf(outcome) ==
    IF outcome = "429" THEN 429 ELSE IF outcome = "500" THEN 500 ELSE 200

\* io.ReadAll(resp.Body) fails on a body that has been closed
ReadBodyFails(resp) == resp.closed

\* what Invoke returns after the loop
InvokeResult(c) ==
    IF c.resp = NoResp
    THEN Returned(FALSE, "request failed after retries", c.lastErr)
    ELSE IF c.entry = "claude" /\ ReadBodyFails(c.resp)
    THEN Returned(FALSE, "reading response", NoErr)
    ELSE IF c.entry = "claude" /\ c.resp.status # 200
    THEN Returned(FALSE, "API error",
                  [attempt |-> c.resp.attempt,
                   failure |-> IF c.resp.status = 429 THEN "429" ELSE "500"])
    ELSE IF c.unparsable
    THEN Returned(FALSE, "parsing response", NoErr)
    ELSE Returned(TRUE, "", NoErr)

\* Attempt n (1-based) is over and its result is in c: the loop goes round
\* again, or it is left and Invoke returns
LoopOn(c, n, break) ==
    IF ~break /\ n < MaxAttempts
    THEN [c EXCEPT !.pc = "attempt"]
    ELSE [c EXCEPT !.pc = "done", !.result = InvokeResult(c)]

\* one turn of the retry loop: the network call and what the code does with
\* its result, up to the sleep (time.Sleep cannot be interrupted)
Attempt(p, outcome) ==
    LET c == caller[p]
        n == c.attempt + 1
    IN /\ c.pc = "attempt"
       /\ outcome \in AttemptOutcomes(c)
       /\ caller' = [caller EXCEPT ![p] =
              IF IsErrOutcome(c, outcome)
              THEN LoopOn([c EXCEPT !.attempt = n, !.outcomes = Append(@, outcome),
                                     !.lastErr = [attempt |-> n, failure |-> outcome],
                                     !.resp = NoResp], n, FALSE)
              ELSE IF outcome = "429"
              THEN [c EXCEPT !.attempt = n, !.outcomes = Append(@, outcome),
                             !.resp = [status |-> 429, closed |-> TRUE, attempt |-> n],
                             !.pc = "backoff"]
              ELSE LoopOn([c EXCEPT !.attempt = n, !.outcomes = Append(@, outcome),
                                     !.resp = [status |-> StatusOf(outcome),
                                               closed |-> FALSE, attempt |-> n],
                                     !.unparsable = (outcome = "200-unparsable")],
                          n, TRUE)]
       /\ UNCHANGED <<now, limiter, pureVars, costVars, streamVars>>

\* the select after a 429: case <-ctx.Done(): return nil, ctx.Err()
BackoffCtxDone(p) ==
    /\ caller[p].pc = "backoff"
    /\ caller[p].ctxDone
    /\ caller' = [caller EXCEPT ![p].pc = "done",
                                ![p].result = Returned(FALSE, "context canceled", NoErr)]
    /\ UNCHANGED <<now, limiter, pureVars, costVars, streamVars>>

\* the select after a 429: case <-time.After(retryAfter): continue
BackoffTimer(p) ==
    /\ caller[p].pc = "backoff"
    /\ caller' = [caller EXCEPT ![p] = LoopOn(caller[p], caller[p].attempt, FALSE)]
    /\ UNCHANGED <<now, limiter, pureVars, costVars, streamVars>>

NextLimiter ==
    \/ \E p \in Callers : WaitCall(p)
    \/ \E p \in Callers : WaitLock(p)
    \/ \E p \in Callers : WaitCtxDone(p)
    \/ \E p \in Callers : WaitTimer(p)
    \/ \E p \in Callers : Cancel(p)
    \/ Tick

NextInvoke ==
    \/ NextLimiter
    \/ \E p \in Callers, o \in {"transport", "429", "500", "200", "200-unparsable"} :
           Attempt(p, o)
    \/ \E p \in Callers : BackoffCtxDone(p)
    \/ \E p \in Callers : BackoffTimer(p)

\* goroutines calling Wait on one limiter
InitLimiter ==
    /\ StreamIdle
    /\ now = 0
    /\ \E m \in 1..MaxBucket, taken \in 0..MaxBucket :
           /\ taken <= m
           /\ limiter = newRateLimiter(m, RefillInterval, taken)
    /\ caller = [p \in Callers |-> NewCaller("Wait")]

\* goroutines calling Invoke on one backend
InitInvoke ==
    /\ StreamIdle
    /\ now = 0
    /\ \E m \in 1..MaxBucket, taken \in 0..MaxBucket :
           /\ taken <= m
           /\ limiter = newRateLimiter(m, RefillInterval, taken)
    /\ \E kind \in BackendKinds : caller = [p \in Callers |-> NewCaller(kind)]

\* goroutines calling Wait on a limiter that has just let maxTokens calls
\* pass, all at the time of its construction
InitBurst ==
    /\ StreamIdle
    /\ now = 0
    /\ \E m \in 1..MaxBucket : limiter = newRateLimiter(m, RefillInterval, m)
    /\ caller = [p \in Callers |-> NewCaller("Wait")]


\* ------------------------------------------------------------------------
\* InvokeStream (internal/backend/claude/claude.go, same in the other
\* backends) and the consumer of the stream (internal/cmd/ask.go)
\* ------------------------------------------------------------------------

\* the content of a successful response
ResultContent == "content"

\* the chunk the producer sends for the result of Invoke
ChunkFor(result) ==
    IF ~result.ok
    THEN [Content |-> "", Error |-> result.err, Done |-> TRUE]
    ELSE [Content |-> ResultContent, Error |-> "", Done |-> TRUE]

\* InvokeStream: make(chan StreamChunk, 1), go func() {...}, return ch, nil.
\* The producer goroutine starts b.Invoke; the consumer holds the channel.
InvokeStream(p) ==
    /\ caller[p].pc = "idle"
    /\ caller[p].entry \in BackendKinds
    /\ stream[p].pc = "off"
    /\ stream' = [stream EXCEPT ![p] =
           [NoStream EXCEPT !.pc = "invoke", !.consumer = "ranging"]]
    /\ caller' = [caller EXCEPT ![p].pc = "lock"]
    /\ UNCHANGED <<now, limiter, pureVars, costVars>>

\* Invoke has returned to the producer, which is at its ch <- chunk
AtSend(p) == stream[p].pc = "invoke" /\ caller[p].pc = "done"

\* ch <- chunk can proceed: the buffer has room
CanSend(p) == Len(stream[p].ch) < ChanCap

\* ProducerSend of a producer that sends a second chunk before it closes
ProducerSendsTwice(p) ==
    /\ AtSend(p)
    /\ CanSend(p)
    /\ LET chunk == ChunkFor(caller[p].result) IN
       stream' = [stream EXCEPT ![p].ch = Append(@, chunk),
                                ![p].sent = Append(@, chunk),
                                ![p].pc = IF stream[p].sent = <<>>
                                          THEN "invoke" ELSE "close"]
    /\ UNCHANGED <<invokeVars, pureVars, costVars>>

\* ch <- StreamChunk{Error: err, Done: true}, or
\* ch <- StreamChunk{Content: result.Content, Done: true}
ProducerSend(p) ==
    /\ AtSend(p)
    /\ CanSend(p)
    /\ LET chunk == ChunkFor(caller[p].result) IN
       stream' = [stream EXCEPT ![p].ch = Append(@, chunk),
                                ![p].sent = Append(@, chunk),
                                ![p].pc = "close"]
    /\ UNCHANGED <<invokeVars, pureVars, costVars>>

\* the deferred close(ch); the goroutine ends
ProducerClose(p) ==
    /\ stream[p].pc = "close"
    /\ stream' = [stream EXCEPT ![p].closed = TRUE, ![p].pc = "done"]
    /\ UNCHANGED <<invokeVars, pureVars, costVars>>

\* for chunk := range streamCh: a chunk is received; a chunk with an error
\* makes the consumer return
Receive(p) ==
    /\ stream[p].consumer = "ranging"
    /\ stream[p].ch # <<>>
    /\ LET chunk == Head(stream[p].ch) IN
       stream' = [stream EXCEPT ![p].ch = Tail(@),
                                ![p].received = Append(@, chunk),
                                ![p].consumer =
                                    IF chunk.Error # "" THEN "returned" ELSE @]
    /\ UNCHANGED <<invokeVars, pureVars, costVars>>

\* the range loop ends on the closed, drained channel
RangeEnd(p) ==
    /\ stream[p].consumer = "ranging"
    /\ stream[p].ch = <<>>
    /\ stream[p].closed
    /\ stream' = [stream EXCEPT ![p].consumer = "returned"]
    /\ UNCHANGED <<invokeVars, pureVars, costVars>>

NextStream ==
    \/ \E p \in Callers : InvokeStream(p)
    \/ \E p \in Callers : WaitLock(p)
    \/ \E p \in Callers : WaitCtxDone(p)
    \/ \E p \in Callers : WaitTimer(p)
    \/ \E p \in Callers : Cancel(p)
    \/ Tick
    \/ \E p \in Callers, o \in {"transport", "429", "500", "200", "200-unparsable"} :
           Attempt(p, o)
    \/ \E p \in Callers : BackoffCtxDone(p)
    \/ \E p \in Callers : BackoffTimer(p)
    \/ \E p \in Callers : ProducerSend(p)
    \/ \E p \in Callers : ProducerClose(p)
    \/ \E p \in Callers : Receive(p)
    \/ \E p \in Callers : RangeEnd(p)

\* the producer goroutines are scheduled; nothing is assumed of the consumers
ProducerFairness ==
    \A p \in Callers : WF_vars(ProducerSend(p)) /\ WF_vars(ProducerClose(p))

\* one InvokeStream call on a backend whose limiter has been used before:
\* the first goroutine is the producer of the call, the others make no call
InitStream ==
    /\ StreamIdle
    /\ now = 0
    /\ \E m \in 1..MaxBucket, taken \in 0..MaxBucket :
           /\ taken <= m
           /\ limiter = newRateLimiter(m, RefillInterval, taken)
    /\ \E kind \in BackendKinds :
           caller = [p \in Callers |->
                        IF p = 1 THEN NewCaller(kind)
                        ELSE [NewCaller("none") EXCEPT !.pc = "off"]]

\* ------------------------------------------------------------------------
\* Inputs of the pure functions
\* ------------------------------------------------------------------------

MaxLabels == 2

\* n words of one letter, each followed by a space
Filler(n) == [i \in 1..(2 * n) |-> IF i % 2 = 1 THEN "w" ELSE " "]

LabelVocabulary ==
    {"tier:fast", "tier:cheap", "tier:balanced", "tier:quality", "tier:powerful", "bug"}

RECURSIVE SeqsUpTo(_, _)
SeqsUpTo(S, n) ==
    IF n = 0 THEN {<<>>}
    ELSE LET shorter == SeqsUpTo(S, n - 1) IN
         shorter \cup {Append(s, x) : s \in {t \in shorter : Len(t) = n - 1}, x \in S}

LabelLists == SeqsUpTo(LabelVocabulary, MaxLabels)

\* <<title, description>>
TaskTexts == {
    <<<<>>, <<>>>>,
    <<<<"S","u","m","m","a","r","i","z","e">>, <<"S","u","m","m","a","r","i","z","e"," ","t","h","e"," ","m","a","i","n"," ","p","o","i","n","t","s">>>>,
    <<<<"T","a","s","k">>, <<"C","r","e","a","t","e"," ","a"," ","f","i","l","e"," ","c","a","l","l","e","d"," ","c","o","n","f","i","g",".","j","s","o","n">>>>,
    <<<<"c","r","e","a","t","e">>, <<"f","i","l","e"," ","n","o","w">>>>,
    <<<<"R","e","c","r","e","a","t","e"," ","f","i","l","e","s">>, <<"x">>>>,
    <<<<"D","e","b","u","g">>, <<>>>>,
    <<<<"I","m","p","l","e","m","e","n","t"," ","f","e","a","t","u","r","e">>, <<"I","m","p","l","e","m","e","n","t"," ","a"," ","n","e","w"," ","f","e","a","t","u","r","e">>>>,
    <<<<"A","r","c","h","i","t","e","c","t"," ","m","i","c","r","o","s","e","r","v","i","c","e","s">>,
      <<"D","e","s","i","g","n"," ","a","n","d"," ","a","r","c","h","i","t","e","c","t",","," ","r","e","f","a","c","t","o","r",","," ","i","m","p","l","e","m","e","n","t",","," ","m","i","g","r","a","t","e",":"," ","f","i","r","s","t",","," ","d","e","b","u","g">>>>,
    <<<<"P","l","a","n">>, <<"1","."," ","a","l","p","h","a"," ","2","."," "," ","b","e","t","a"," ","3","."," ","g","a","m","m","a">>>>,
    <<<<"L","i","s","t">>, <<"1","0","."," ","a"," ","2",".","b"," ","3","."," ","c">>>>,
    <<<<"d","e","b","u","g">>, Filler(50)>>,
    <<<<"d","e","b","u","g">>, Filler(100)>>,
    <<<<"d","e","b","u","g">>, Filler(201)>> }

AnalyzeCalls ==
    {[op |-> "Analyze", title |-> t[1], description |-> t[2], labels |-> l] :
        t \in TaskTexts, l \in LabelLists}

SelectIntents ==
    {IntentAuto, IntentFast, IntentCheap, IntentBalanced, IntentQuality, ""}

BackendNames == {"grok", "bedrock", "openai"}

SelectModelCalls ==
    {[op |-> "SelectModel",
      complexity |-> [Score |-> 0, MinTier |-> m, RequiresToolUse |-> u],
      intent |-> i, available |-> a] :
        m \in TierSimple..TierCLI, u \in BOOLEAN, i \in SelectIntents,
        a \in SUBSET BackendNames}

\* ------------------------------------------------------------------------
\* Calls of the pure functions
\* ------------------------------------------------------------------------

InitAnalyze ==
    /\ call \in AnalyzeCalls
    /\ ret = NoRet
    /\ CostIdle
    /\ InvokeIdle

CallAnalyze ==
    /\ call.op = "Analyze"
    /\ ret = NoRet
    /\ ret' = [returned |-> TRUE,
               value |-> Analyze(call.title, call.description, call.labels)]
    /\ UNCHANGED <<call, costVars, invokeVars, streamVars>>

SpecAnalyze == InitAnalyze /\ [][CallAnalyze]_vars

InitSelectModel ==
    /\ call \in SelectModelCalls
    /\ ret = NoRet
    /\ CostIdle
    /\ InvokeIdle

CallSelectModel ==
    /\ call.op = "SelectModel"
    /\ ret = NoRet
    /\ ret' = [returned |-> TRUE,
               value |-> SelectModel(call.complexity, call.intent, call.available)]
    /\ UNCHANGED <<call, costVars, invokeVars, streamVars>>

SpecSelectModel == InitSelectModel /\ [][CallSelectModel]_vars

MaxEstimatedTokens == 2

RouteTexts == {
    <<<<>>, <<>>>>,
    <<<<"L","i","s","t">>, <<"x">>>>,
    <<<<"F","i","x">>, <<"G","i","t"," ","P","u","s","h"," ","i","t">>>>,
    <<<<"I","m","p","l","e","m","e","n","t">>, <<>>>>,
    <<<<"A","r","c","h","i","t","e","c","t"," ","d","e","s","i","g","n">>, <<>>>> }

RouteLabelLists ==
    {<<>>, <<"tier:fast">>, <<"tier:quality">>, <<"bug", "tier:cheap">>}

RouteConfigs ==
    {[Enabled |-> e, TokenThreshold |-> 1, FallbackToCLI |-> f] :
        e \in BOOLEAN, f \in BOOLEAN}

RouteRegistries ==
    {{}, {"grok"}, {"bedrock"}, {"grok", "bedrock"}, {"openai"}}

RouteHints ==
    {NilHints} \cup
    {[Title |-> t[1], Description |-> t[2], Tier |-> tier, ModelTag |-> tag,
      Intent |-> i, EstimatedTokens |-> n, Labels |-> l] :
        t \in RouteTexts,
        tier \in {<<>>, <<"H","a","i","k","u">>, <<"S","O","N","N","E","T">>, <<"o","p","u","s">>, <<"g","p","t">>},
        tag \in {"", "grok-fast", "grok", "opus", "gpt4", "bedrock", "nope"},
        i \in {"", IntentFast},
        n \in 0..MaxEstimatedTokens,
        l \in RouteLabelLists}

RouteCalls ==
    {[op |-> "Route", config |-> c, registry |-> r, hints |-> h] :
        c \in RouteConfigs, r \in RouteRegistries, h \in RouteHints}

InitRoute ==
    /\ call \in RouteCalls
    /\ ret = NoRet
    /\ CostIdle
    /\ InvokeIdle

CallRoute ==
    /\ call.op = "Route"
    /\ ret = NoRet
    /\ ret' = [returned |-> TRUE,
               value |-> Route(call.config, call.registry, call.hints)]
    /\ UNCHANGED <<call, costVars, invokeVars, streamVars>>

SpecRoute == InitRoute /\ [][CallRoute]_vars

MaxConversation == 4

MaxContextTokens == 36

ContentLengths == {0, 4, 12}

ContentLetters == <<"a", "b", "c", "d", "e", "f", "g">>

\* the content of the message at position k: n times the k-th letter
ContentOf(k, n) == [i \in 1..n |-> ContentLetters[k]]

ConversationRole(k) == IF k % 2 = 1 THEN RoleUser ELSE RoleAssistant

\* conversations of n messages, user and assistant in turn
ConversationsOf(n) ==
    {[k \in 1..n |-> Message(ConversationRole(k), ContentOf(k, lens[k]))] :
        lens \in [1..n -> ContentLengths]}

SystemPrefixes ==
    {<<>>} \cup {<<Message(RoleSystem, ContentOf(MaxConversation + 1, n))>> :
                    n \in ContentLengths}

MessageLists ==
    {s \o c : s \in SystemPrefixes,
              c \in UNION {ConversationsOf(n) : n \in 0..MaxConversation}}

ContextManagers == {[DefaultStrategy |-> TruncateOldest, ReserveTokens |-> 2]}

Strategies == {TruncateOldest, TruncateMiddle, TruncateLongest, "", "summarize"}

PrepareContextCalls ==
    {[op |-> "PrepareContext", cm |-> cm, messages |-> m, maxTokens |-> n,
      strategy |-> s] :
        cm \in ContextManagers, m \in MessageLists, n \in 0..MaxContextTokens,
        s \in Strategies}

InitContext ==
    /\ call \in PrepareContextCalls
    /\ ret = NoRet
    /\ CostIdle
    /\ InvokeIdle

CallPrepareContext ==
    /\ call.op = "PrepareContext"
    /\ ret = NoRet
    /\ ret' = [returned |-> TRUE,
               value |-> PrepareContext(call.cm, call.messages, call.maxTokens,
                                        call.strategy)]
    /\ UNCHANGED <<call, costVars, invokeVars, streamVars>>

SpecContext == InitContext /\ [][CallPrepareContext]_vars

\* ------------------------------------------------------------------------
\* Specifications of the concurrent components
\* ------------------------------------------------------------------------

PureIdle ==
    /\ call = NoCall
    /\ ret = NoRet

InitCostTracker == PureIdle /\ InitCost /\ InvokeIdle

SpecCost == InitCostTracker /\ [][NextCost]_vars

SpecCostReset == InitCostTracker /\ [][NextCostReset]_vars

InitCostReport == PureIdle /\ InitCost /\ InvokeIdle

SpecCostReport == InitCostReport /\ [][NextCostReport]_vars

InitWaiters == PureIdle /\ CostIdle /\ InitLimiter

SpecLimiter == InitWaiters /\ [][NextLimiter]_vars

InitAfterBurst == PureIdle /\ CostIdle /\ InitBurst

SpecAfterBurst == InitAfterBurst /\ [][NextLimiter]_vars

InitInvokers == PureIdle /\ CostIdle /\ InitInvoke

SpecInvoke == InitInvokers /\ [][NextInvoke]_vars

InitStreams == PureIdle /\ CostIdle /\ InitStream

SpecStream == InitStreams /\ [][NextStream]_vars /\ ProducerFairness


\* ------------------------------------------------------------------------
\* BackendDispatcher.ExecuteAPIBackend (internal/cmd/sling_backend.go)
\* ------------------------------------------------------------------------

\* the goroutine that runs ExecuteAPIBackend
Executor == 1

\* a nil *BackendExecutionResult
NilResult == [nil |-> TRUE]

\* &BackendExecutionResult{FallbackToCLI: true, Reason: reason}
FallbackResult(reason) ==
    [nil |-> FALSE, Success |-> FALSE, FallbackToCLI |-> TRUE, Reason |-> reason,
     Content |-> ""]

\* &BackendExecutionResult{Success: true, Content: result.Content, ...}
SuccessResult(content) ==
    [nil |-> FALSE, Success |-> TRUE, FallbackToCLI |-> FALSE, Reason |-> "",
     Content |-> content]

\* what ExecuteAPIBackend returns: (result, err), err "" for nil
Executed(result, err) == [result |-> result, err |-> err]

\* OnFailure that returns the error whatever the route's flag
OnFailureAlwaysError(route, reason, wrapped) == Executed(NilResult, wrapped)

\* the shape of the failure branches: a fallback result when the route allows
\* the fallback, else the wrapped error
OnFailure(route, reason, wrapped) ==
    IF route.FallbackToCLI
    THEN Executed(FallbackResult(reason), "")
    ELSE Executed(NilResult, wrapped)

\* the contextManager of the dispatcher
DispatcherContextManager == [DefaultStrategy |-> TruncateOldest, ReserveTokens |-> 2]

\* the steps of ExecuteAPIBackend before b.Invoke: the value returned early,
\* or NoRet when the call goes on to Invoke
BeforeInvoke(c) ==
    IF c.route.Backend \notin c.registry
    THEN [returned |-> TRUE,
          value |-> OnFailure(c.route, "backend not available", "backend not available")]
    ELSE LET prepared == PrepareContext(DispatcherContextManager, c.messages,
                                        c.maxTokens, TruncateOldest)
         IN IF prepared.Err # ""
            THEN [returned |-> TRUE,
                  value |-> OnFailure(c.route, "context preparation failed",
                                      "preparing context")]
            ELSE IF c.costEstimate > c.config.CostThreshold /\ c.route.FallbackToCLI
            THEN [returned |-> TRUE,
                  value |-> Executed(FallbackResult("estimated cost exceeds threshold"), "")]
            ELSE NoRet

\* Initialize, registry.Get, buildMessages (the input), PrepareContext, the
\* cost check, and the call of b.Invoke
ExecuteStart ==
    /\ call.op = "ExecuteAPIBackend"
    /\ ret = NoRet
    /\ caller[Executor].pc = "idle"
    /\ ret' = BeforeInvoke(call)
    /\ caller' = [caller EXCEPT ![Executor].pc =
                     IF BeforeInvoke(call) = NoRet THEN "lock" ELSE "off"]
    /\ UNCHANGED <<call, now, limiter, costVars, streamVars>>

\* the entry costTracker.Record stores for the finished call
ExecutedEntry(c) ==
    [Backend |-> c.route.Backend, Model |-> c.route.Model, InputTokens |-> 1,
     OutputTokens |-> 1, TotalCost |-> c.costEstimate]

\* ExecuteFinish that records the cost of a failed invocation as well
ExecuteFinishRecordsFailures ==
    /\ call.op = "ExecuteAPIBackend"
    /\ ret = NoRet
    /\ caller[Executor].pc = "done"
    /\ ret' = [returned |-> TRUE,
               value |-> IF ~caller[Executor].result.ok
                         THEN OnFailure(call.route, "backend invocation failed",
                                        "backend invocation failed")
                         ELSE Executed(SuccessResult(ResultContent), "")]
    /\ ct' = [ct EXCEPT !.entries = Append(@, ExecutedEntry(call)),
                        !.total = @ + ExecutedEntry(call).TotalCost]
    /\ recorded' = Append(recorded,
                          [arg |-> ExecutedEntry(call), overlapped |-> FALSE])
    /\ UNCHANGED <<call, recorder, invokeVars, streamVars>>

\* b.Invoke has returned: the failure branch, or costTracker.Record and the
\* successful result
ExecuteFinish ==
    /\ call.op = "ExecuteAPIBackend"
    /\ ret = NoRet
    /\ caller[Executor].pc = "done"
    /\ IF ~caller[Executor].result.ok
       THEN /\ ret' = [returned |-> TRUE,
                       value |-> OnFailure(call.route, "backend invocation failed",
                                           "backend invocation failed")]
            /\ UNCHANGED <<ct, recorded>>
       ELSE /\ ret' = [returned |-> TRUE,
                       value |-> Executed(SuccessResult(ResultContent), "")]
            /\ ct' = [ct EXCEPT !.entries = Append(@, ExecutedEntry(call)),
                                !.total = @ + ExecutedEntry(call).TotalCost]
            /\ recorded' = Append(recorded,
                                  [arg |-> ExecutedEntry(call), overlapped |-> FALSE])
    /\ UNCHANGED <<call, recorder, invokeVars, streamVars>>

NextExecute ==
    \/ ExecuteStart
    \/ \E p \in Callers : WaitLock(p)
    \/ \E p \in Callers : WaitCtxDone(p)
    \/ \E p \in Callers : WaitTimer(p)
    \/ \E p \in Callers : Cancel(p)
    \/ Tick
    \/ \E p \in Callers, o \in {"transport", "429", "500", "200", "200-unparsable"} :
           Attempt(p, o)
    \/ \E p \in Callers : BackoffCtxDone(p)
    \/ \E p \in Callers : BackoffTimer(p)
    \/ ExecuteFinish

\* buildMessages: the system prompt, and the user prompt unless it is empty
BuiltMessages ==
    {s \o c : s \in SystemPrefixes \ {<<>>},
              c \in UNION {ConversationsOf(n) : n \in 0..1}}

ExecuteCalls ==
    {[op |-> "ExecuteAPIBackend",
      route |-> [Backend |-> b, Model |-> "model", FallbackToCLI |-> f],
      config |-> [CostThreshold |-> 1], registry |-> reg, messages |-> m, maxTokens |-> n, costEstimate |-> e] :
        b \in BackendKinds, f \in BOOLEAN, reg \in SUBSET BackendKinds,
        m \in BuiltMessages, n \in {1, 2, 7, 12}, e \in {0, 2}}

\* one ExecuteAPIBackend call on a dispatcher with a fresh cost tracker and a
\* backend whose limiter has been used before
InitExecute ==
    /\ call \in ExecuteCalls
    /\ ret = NoRet
    /\ CostIdle
    /\ StreamIdle
    /\ now = 0
    /\ \E taken \in 0..1 : limiter = newRateLimiter(1, RefillInterval, taken)
    /\ caller = [p \in Callers |->
                    IF p = Executor THEN NewCaller(call.route.Backend)
                    ELSE [NewCaller("none") EXCEPT !.pc = "off"]]

SpecExecute == InitExecute /\ [][NextExecute]_vars

\* ------------------------------------------------------------------------
\* Long conversations handed to TruncateMiddle
\* ------------------------------------------------------------------------

MaxMiddleConversation == 6

\* conversations of n messages, user and assistant in turn, each message
\* empty or long
LongConversationsOf(n) ==
    {[k \in 1..n |-> Message(ConversationRole(k), ContentOf(k, lens[k]))] :
        lens \in [1..n -> {0, 12}]}

TruncateMiddleCalls ==
    {[op |-> "PrepareContext", cm |-> cm, messages |-> s \o c, maxTokens |-> n,
      strategy |-> TruncateMiddle] :
        cm \in ContextManagers,
        s \in {<<>>, <<Message(RoleSystem, ContentOf(1, 4))>>},
        c \in UNION {LongConversationsOf(k) : k \in 3..MaxMiddleConversation},
        n \in 3..(4 * MaxMiddleConversation)}

InitTruncateMiddle ==
    /\ call \in TruncateMiddleCalls
    /\ ret = NoRet
    /\ CostIdle
    /\ InvokeIdle

SpecTruncateMiddle == InitTruncateMiddle /\ [][CallPrepareContext]_vars
\* ------------------------------------------------------------------------
\* Properties
\* ------------------------------------------------------------------------

\* the hints Route works on, nil replaced by the empty hints
CallHints == IF call.hints = NilHints THEN EmptyHints ELSE call.hints

\* the lower-cased text "title description" of the call contains one of the
\* fixed tool-use phrases
TextHasToolPhrase(title, description) ==
    LET text == ToLower(title \o <<" ">> \o description) IN
    \E k \in 1..Len(toolPatterns) : Contains(text, toolPatterns[k])

\* the intent Route hands to SelectModel: the one of the labels, else the
\* one of the hints
CallIntent ==
    IF ExtractIntent(CallHints.Labels) = IntentAuto /\ CallHints.Intent # ""
    THEN CallHints.Intent ELSE ExtractIntent(CallHints.Labels)

\* a call of Route with routing enabled and hints without legacy tag and tier
RouteCallWithoutLegacy ==
    /\ call.op = "Route"
    /\ ret.returned
    /\ call.config.Enabled
    /\ CallHints.ModelTag = ""
    /\ CallHints.Tier = <<>>

OverTokenThreshold ==
    /\ CallHints.EstimatedTokens > 0
    /\ CallHints.EstimatedTokens > call.config.TokenThreshold

\* C1: with routing enabled and hints without legacy tag and tier, Route
\* returns the outcome of the first check that matches, in the order: tool-use
\* phrase in the text (CLI, tool-use reason), estimated tokens over the
\* threshold (CLI "exceeds token threshold"), empty registry (CLI "no API
\* backends available"), SelectModel returning none (CLI, FallbackToCLI true),
\* else API with the backend and model SelectModel chose.
C1_RouteDecisionOrder ==
    RouteCallWithoutLegacy =>
        LET h == CallHints
            r == ret.value
            selected == SelectModel(Analyze(h.Title, h.Description, h.Labels),
                                    CallIntent, call.registry)
        IN IF TextHasToolPhrase(h.Title, h.Description)
           THEN /\ r.Decision = RouteCLI
                /\ r.Reason = <<"task requires tool use (file operations, git, etc.)">>
           ELSE IF OverTokenThreshold
           THEN r.Decision = RouteCLI /\ r.Reason = <<"exceeds token threshold">>
           ELSE IF call.registry = {}
           THEN r.Decision = RouteCLI /\ r.Reason = <<"no API backends available">>
           ELSE IF selected = NoModel
           THEN r.Decision = RouteCLI /\ r.FallbackToCLI = TRUE
           ELSE /\ r.Decision = RouteAPI
                /\ r.Backend = selected.Backend
                /\ r.Model = selected.Model

\* a call in which the token check and the registry check both match and the
\* earlier one decided
C1_Witness ==
    /\ RouteCallWithoutLegacy
    /\ ~TextHasToolPhrase(CallHints.Title, CallHints.Description)
    /\ OverTokenThreshold
    /\ call.registry = {}
    /\ ret.value.Reason = <<"exceeds token threshold">>

\* a call of Analyze that has returned
AnalyzeReturned == call.op = "Analyze" /\ ret.returned

\* C5: Analyze sets RequiresToolUse exactly when the lower-cased text
\* "title description" contains a tool-use phrase; then the result is Score 100
\* and MinTier RequiresCLI whatever the labels; otherwise MinTier is not
\* RequiresCLI.
C5_ToolUseIffPhrase ==
    AnalyzeReturned =>
        LET phrase == TextHasToolPhrase(call.title, call.description) IN
        /\ ret.value.RequiresToolUse <=> phrase
        /\ phrase => (ret.value.Score = 100 /\ ret.value.MinTier = TierCLI)
        /\ ~phrase => ret.value.MinTier # TierCLI

\* a task whose phrase is found only after lower-casing, with a label that
\* would cap the score
C5_Witness ==
    /\ AnalyzeReturned
    /\ ret.value.RequiresToolUse
    /\ ~requiresToolUse(call.title \o <<" ">> \o call.description)
    /\ call.labels = <<"tier:cheap">>
    /\ ret.value.Score = 100

\* C9: the Score Analyze returns is in 0..100 for every title, description
\* and label list.
C9_ScoreInRange ==
    AnalyzeReturned => ret.value.Score \in 0..100

\* a task without tool use whose signals add up to more than 100
C9_Witness ==
    /\ AnalyzeReturned
    /\ ~ret.value.RequiresToolUse
    /\ RawScore(Combined(call.title, call.description)) > 100
    /\ ret.value.Score = 100

\* a call of SelectModel that has returned
SelectModelReturned == call.op = "SelectModel" /\ ret.returned

\* some catalog entry has its backend available and a tier at least the
\* minimum tier of the call as adjusted by its intent
SomeEntryQualifies ==
    \E k \in 1..Len(ModelCapabilities) :
        /\ ModelCapabilities[k].Backend \in call.available
        /\ ModelCapabilities[k].Tier >=
               EffectiveMinTier(call.complexity.MinTier, call.intent)

\* C6: SelectModel returns none exactly when the complexity requires tool use
\* or no catalog entry has an available backend and a tier at least the
\* effective minimum tier; otherwise it returns a model of the catalog.
C6_SelectModelNoneIff ==
    SelectModelReturned =>
        /\ ret.value = NoModel <=>
               (call.complexity.RequiresToolUse \/ ~SomeEntryQualifies)
        /\ ret.value # NoModel =>
               \E k \in 1..Len(ModelCapabilities) : ret.value = ModelCapabilities[k]

\* a call without tool use and with backends available whose intent raises
\* the minimum tier to that of the one entry that still qualifies
C6_Witness ==
    /\ SelectModelReturned
    /\ ~call.complexity.RequiresToolUse
    /\ call.intent = IntentQuality
    /\ call.complexity.MinTier = TierModerate
    /\ ret.value # NoModel
    /\ ret.value.Tier = TierComplex
    /\ Cardinality({k \in 1..Len(ModelCapabilities) :
           IsCandidate(ModelCapabilities[k], TierComplex, call.available)}) = 1

\* C10: with RoutingConfig.Enabled false, Route returns CLI with the reason
\* "hybrid routing disabled" for every hints value, nil included, and every
\* registry.
C10_DisabledRoutesToCLI ==
    (call.op = "Route" /\ ret.returned /\ ~call.config.Enabled) =>
        ret.value = Result(RouteCLI, "", "", <<"hybrid routing disabled">>, FALSE)

\* a disabled router asked about a legacy tag whose backend is registered
C10_Witness ==
    /\ call.op = "Route"
    /\ ret.returned
    /\ ~call.config.Enabled
    /\ call.hints # NilHints
    /\ call.hints.ModelTag = "grok-fast"
    /\ "grok" \in call.registry
    /\ ret.value.Decision = RouteCLI

\* a call of PrepareContext that has returned
PrepareContextReturned == call.op = "PrepareContext" /\ ret.returned

\* the budget PrepareContext truncates to
CallBudget == call.maxTokens - call.cm.ReserveTokens

\* the list of the call is not empty, the reserve leaves a budget and the
\* list fits into it
CallFits ==
    /\ call.messages # <<>>
    /\ call.maxTokens > call.cm.ReserveTokens
    /\ estimateTokens(call.messages) <= CallBudget

\* C7: for a non-empty list and any strategy, when maxTokens exceeds the
\* reserve and the estimated tokens of the list are at most maxTokens minus
\* the reserve, PrepareContext returns the input list as it is and no error.
C7_FitsReturnedUnchanged ==
    (PrepareContextReturned /\ CallFits) =>
        (ret.value.Messages = call.messages /\ ret.value.Err = "")

\* a list with a system message and three more messages that fills the
\* budget to the last token
C7_Witness ==
    /\ PrepareContextReturned
    /\ CallFits
    /\ HasSystemMsg(call.messages)
    /\ Len(call.messages) = 4
    /\ estimateTokens(call.messages) = CallBudget
    /\ ret.value.Messages = call.messages

\* the strategy PrepareContext applies to the call
CallStrategy ==
    IF call.strategy = "" THEN call.cm.DefaultStrategy ELSE call.strategy

\* a call with a system message at the head of the list, one of the three
\* strategies and a reserve that leaves a budget
WithSystemAndBudget ==
    /\ PrepareContextReturned
    /\ HasSystemMsg(call.messages)
    /\ CallStrategy \in {TruncateOldest, TruncateMiddle, TruncateLongest}
    /\ CallBudget > 0

\* C8: for each of the three strategies, a list that starts with a system
\* message comes back as a list that starts with a system message, and
\* TruncateOldest keeps the system message's content as it is when its
\* estimated tokens are below the budget.
C8_SystemMessageKept ==
    WithSystemAndBudget =>
        /\ ret.value.Err = ""
        /\ HasSystemMsg(ret.value.Messages)
        /\ (CallStrategy = TruncateOldest
              /\ estimateMessageTokens(call.messages[1]) < CallBudget)
               => ret.value.Messages[1] = call.messages[1]

\* a truncation by TruncateOldest that drops conversation messages and keeps
\* the system message
C8_Witness ==
    /\ WithSystemAndBudget
    /\ estimateTokens(call.messages) > CallBudget
    /\ CallStrategy = TruncateOldest
    /\ estimateMessageTokens(call.messages[1]) < CallBudget
    /\ Len(ret.value.Messages) \in 2..(Len(call.messages) - 1)
    /\ ret.value.Messages[1] = call.messages[1]

\* the sum of the TotalCost of the Record calls in a sequence of returned calls
RECURSIVE SumRecorded(_)
SumRecorded(calls) ==
    IF calls = <<>> THEN 0
    ELSE Head(calls).arg.TotalCost + SumRecorded(Tail(calls))

\* the number of returned Record calls made for a backend
CallsFor(backend) ==
    Cardinality({i \in 1..Len(recorded) : recorded[i].arg.Backend = backend})

\* C2: for any interleaving of concurrent Record calls, once all calls have
\* returned Total() is the sum of the recorded costs and Summary() counts, for
\* each backend, one invocation per Record call made for it: no update is lost.
C2_NoLostRecord ==
    CostQuiescent =>
        /\ Total = SumRecorded(recorded)
        /\ Len(ct.entries) = Len(recorded)
        /\ \A b \in {"grok", "bedrock"} :
               IF CallsFor(b) = 0 THEN b \notin DOMAIN Summary
               ELSE /\ b \in DOMAIN Summary
                    /\ Summary[b].Invocations = CallsFor(b)

\* all calls have returned, two of them overlapped in time and both backends
\* were recorded
C2_Witness ==
    /\ CostQuiescent
    /\ Len(recorded) = MaxRecords
    /\ \E i, j \in 1..Len(recorded) :
           /\ i # j
           /\ recorded[i].overlapped
           /\ recorded[j].overlapped
    /\ CallsFor("grok") > 0
    /\ CallsFor("bedrock") > 0
    /\ Total > 0

\* C3: a caller of Wait whose context is cancelled or expires while it waits
\* for a token, alone or together with other callers waiting on the same
\* limiter, returns the context's error and never success.
C3_CancelledWaiterGetsError ==
    \A p \in Callers :
        (caller[p].pc = "done" /\ caller[p].firedWaiting) =>
            (~caller[p].result.ok /\ caller[p].result.err = "context canceled")

\* Invoke was admitted by the rate limiter and has returned
InvokeReturned(p) ==
    /\ caller[p].entry \in BackendKinds
    /\ caller[p].pc = "done"
    /\ caller[p].result.err # "rate limit: context canceled"

\* C4: once admitted by the rate limiter, Invoke makes 1 to 3 attempts of the
\* network call, none after the first that is neither a transport error nor
\* a 429, and when all 3 fail it returns an error that reports the failure of
\* the last attempt.
C4_RetriesReportLastFailure ==
    \A p \in Callers :
        InvokeReturned(p) =>
            LET o == caller[p].outcomes IN
            /\ Len(o) \in 1..3
            /\ \A i \in 1..(Len(o) - 1) : o[i] \in {"transport", "429"}
            /\ (Len(o) = 3 /\ o[3] \in {"transport", "429"} /\ ~caller[p].ctxDone) =>
                   /\ ~caller[p].result.ok
                   /\ caller[p].result.cause = [attempt |-> 3, failure |-> o[3]]

\* the tier a legacy tag of the static table stands for when a substitute is
\* looked for
TagImpliedTier(tag) ==
    IF tag \in {"grok", "sonnet"} THEN TierModerate
    ELSE IF tag \in {"opus", "grok-4"} THEN TierComplex
    ELSE TierSimple

\* a call of Route with routing enabled and a legacy tag of the static table
\* whose mapped backend is not registered
RouteCallWithUnregisteredTag ==
    /\ call.op = "Route"
    /\ ret.returned
    /\ call.config.Enabled
    /\ call.hints # NilHints
    /\ call.hints.ModelTag \in DOMAIN TierToBackend
    /\ TierToBackend[call.hints.ModelTag][1] \notin call.registry

\* the catalog entries on a registered backend that meet the tier the tag of
\* the call stands for
TagSubstitutes ==
    {k \in 1..Len(ModelCapabilities) :
        /\ ModelCapabilities[k].Backend \in call.registry
        /\ ModelCapabilities[k].Tier >= TagImpliedTier(call.hints.ModelTag)}

\* C11: with routing enabled and a legacy tag of the static table whose
\* backend is not registered, Route returns an API decision on a registered
\* backend with a "fallback from <tag> to <backend>/<model>" reason when the
\* catalog has an entry on a registered backend that meets the tag's tier;
\* when it has none, routing goes on as it does without the tag.
C11_TagSubstitution ==
    RouteCallWithUnregisteredTag =>
        LET r == ret.value
            tag == call.hints.ModelTag
        IN IF TagSubstitutes # {}
           THEN /\ r.Decision = RouteAPI
                /\ r.Backend \in call.registry
                /\ \E k \in TagSubstitutes :
                       /\ r.Backend = ModelCapabilities[k].Backend
                       /\ r.Model = ModelCapabilities[k].Model
                /\ r.Reason = <<"fallback from ", tag, " to ", r.Backend, "/", r.Model>>
           ELSE r = Route(call.config, call.registry,
                          [call.hints EXCEPT !.ModelTag = ""])

\* the tag grok-fast with only bedrock registered is answered with haiku
C11_Witness ==
    /\ RouteCallWithUnregisteredTag
    /\ call.hints.ModelTag = "grok-fast"
    /\ call.registry = {"bedrock"}
    /\ ret.value.Decision = RouteAPI
    /\ ret.value.Backend = "bedrock"
    /\ ret.value.Model = "haiku"

\* the model-tag step of Route gives no result for the call: there is no tag,
\* or the tag is neither in the static table nor a registered backend, or it
\* is in the table with its backend unregistered and without substitute
TagStepGivesNothing ==
    LET tag == call.hints.ModelTag IN
    \/ tag = ""
    \/ (tag \notin DOMAIN TierToBackend /\ tag \notin call.registry)
    \/ /\ tag \in DOMAIN TierToBackend
       /\ TierToBackend[tag][1] \notin call.registry
       /\ TagSubstitutes = {}

\* a call of Route with routing enabled, a legacy tier hint and no result
\* from the model-tag step
RouteCallWithTier ==
    /\ call.op = "Route"
    /\ ret.returned
    /\ call.config.Enabled
    /\ call.hints # NilHints
    /\ call.hints.Tier # <<>>
    /\ TagStepGivesNothing

\* C12: with routing enabled and no result from the model-tag step, a tier
\* hint that is haiku, sonnet or opus in any letter case ends routing: API
\* with the model SelectModel gives for the tier's intent and minimum tier, or
\* CLI "no API model available for tier" when it gives none, whatever the task
\* text and the estimated tokens are; any other tier lets routing go on as it
\* does without the tier.
C12_LegacyTierEndsRouting ==
    RouteCallWithTier =>
        LET r == ret.value
            tier == ToLower(call.hints.Tier)
            intent == IF tier = <<"h", "a", "i", "k", "u">> THEN IntentCheap
                      ELSE IF tier = <<"o", "p", "u", "s">> THEN IntentQuality
                      ELSE IntentBalanced
            minTier == IF tier = <<"h", "a", "i", "k", "u">> THEN TierSimple
                       ELSE IF tier = <<"o", "p", "u", "s">> THEN TierComplex
                       ELSE TierModerate
            selected == SelectModel([Score |-> 0, MinTier |-> minTier,
                                     RequiresToolUse |-> FALSE], intent, call.registry)
        IN IF tier \in {<<"h", "a", "i", "k", "u">>, <<"s", "o", "n", "n", "e", "t">>,
                        <<"o", "p", "u", "s">>}
           THEN IF selected # NoModel
                THEN /\ r.Decision = RouteAPI
                     /\ r.Backend = selected.Backend
                     /\ r.Model = selected.Model
                     /\ r.Backend \in call.registry
                ELSE /\ r.Decision = RouteCLI
                     /\ r.Reason = <<"no API model available for tier: ">> \o tier
           ELSE r = Route(call.config, call.registry,
                          [call.hints EXCEPT !.Tier = <<>>])

\* the tier Haiku on a task that asks for tool use and is over the token
\* threshold is answered by the API
C12_Witness ==
    /\ RouteCallWithTier
    /\ call.hints.Tier = <<"H", "a", "i", "k", "u">>
    /\ TextHasToolPhrase(call.hints.Title, call.hints.Description)
    /\ OverTokenThreshold
    /\ ret.value.Decision = RouteAPI

\* a call of Route that returned an API decision
RouteReturnedAPI ==
    /\ call.op = "Route"
    /\ ret.returned
    /\ ret.value.Decision = RouteAPI

\* C13: every RouteResult with Decision API, whichever step of Route made it,
\* has FallbackToCLI equal to the configuration's FallbackToCLI.
C13_APIResultCarriesFallbackFlag ==
    RouteReturnedAPI => ret.value.FallbackToCLI = call.config.FallbackToCLI

\* an API decision made for a tag that names a registered backend, under a
\* configuration with the flag set
C13_Witness ==
    /\ RouteReturnedAPI
    /\ call.config.FallbackToCLI
    /\ call.hints # NilHints
    /\ call.hints.ModelTag = "bedrock"
    /\ ret.value.Reason = <<"legacy model tag (backend): ", "bedrock">>
    /\ ret.value.FallbackToCLI

\* the minimum tier of the call after the intent's adjustment: one lower for
\* fast and cheap but not below Simple, one higher for quality but not above
\* Complex
CallEffectiveTier ==
    LET m == call.complexity.MinTier IN
    IF call.intent \in {IntentFast, IntentCheap}
    THEN (IF m - 1 < TierSimple THEN TierSimple ELSE m - 1)
    ELSE IF call.intent = IntentQuality
    THEN (IF m >= TierComplex THEN m ELSE m + 1)
    ELSE m

\* the catalog entries with an available backend and a tier at least the
\* effective minimum tier
Qualifying ==
    {k \in 1..Len(ModelCapabilities) :
        /\ ModelCapabilities[k].Backend \in call.available
        /\ ModelCapabilities[k].Tier >= CallEffectiveTier}

\* entry k is at least as good as entry j on the measure of the call's intent
\* and, when equal on it, not later in the catalog
PreferredTo(k, j) ==
    LET a == ModelCapabilities[k]
        b == ModelCapabilities[j]
    IN IF call.intent = IntentFast
       THEN a.SpeedScore > b.SpeedScore \/ (a.SpeedScore = b.SpeedScore /\ k <= j)
       ELSE a.CostPer1K < b.CostPer1K \/ (a.CostPer1K = b.CostPer1K /\ k <= j)

\* C14: a model SelectModel returns is a catalog entry with an available
\* backend and a tier at least the effective minimum tier; among these
\* entries it has the lowest CostPer1K, for intent fast the highest
\* SpeedScore, and is the first in catalog order of those equal on it.
C14_SelectModelPicksBest ==
    (SelectModelReturned /\ ret.value # NoModel) =>
        \E k \in Qualifying :
            /\ ret.value = ModelCapabilities[k]
            /\ \A j \in Qualifying : PreferredTo(k, j)

\* intent fast picks the fastest of three qualifying entries, which is not
\* the cheapest of them
C14_Witness ==
    /\ SelectModelReturned
    /\ call.intent = IntentFast
    /\ call.complexity.MinTier = TierComplex
    /\ Cardinality(Qualifying) = 3
    /\ ret.value.Model = "grok-3"
    /\ \E j \in Qualifying : ModelCapabilities[j].CostPer1K < ret.value.CostPer1K

\* the sum of the TotalCost of the entries of a list
RECURSIVE SumEntries(_)
SumEntries(entries) ==
    IF entries = <<>> THEN 0
    ELSE Head(entries).TotalCost + SumEntries(Tail(entries))

\* with the lock free, the running total is the sum over the stored entries
TotalMatchesEntries == MuFree => Total = SumEntries(Entries)

\* a step in which Reset returns leaves Total() at 0 and Entries() and
\* Summary() empty
ResetReturnsEmpty ==
    (\E p \in Recorders : ResetReturn(p)) =>
        (Total' = 0 /\ Entries' = <<>> /\ DOMAIN Summary' = {})

\* C15: Reset clears the entries and the running total in one atomic step:
\* under any interleaving of Record and Reset, whenever the tracker's lock is
\* free the running total is the sum of TotalCost over the stored entries, and
\* when Reset returns Total() is 0 and Entries() and Summary() are empty.
C15_ResetAtomic == [](TotalMatchesEntries) /\ [][ResetReturnsEmpty]_vars

\* a Reset that ran between two Record calls: two calls have returned, one
\* entry is stored and the lock is free
C15_Witness ==
    /\ MuFree
    /\ Len(recorded) = 2
    /\ Len(Entries) = 1
    /\ Total = recorded[2].arg.TotalCost
    /\ recorded[2].overlapped

\* the reserve of the call's manager exceeds the call's maxTokens
ReserveExceedsMaxTokens == call.cm.ReserveTokens > call.maxTokens

\* C18: for every message list, empty or not, and every strategy, a call
\* whose response reserve exceeds maxTokens fails with an error and returns
\* no messages.
C18_ReserveTooLargeFails ==
    (PrepareContextReturned /\ ReserveExceedsMaxTokens) =>
        (ret.value.Err # "" /\ ret.value.Messages = <<>>)

\* a returned list holds a message that is not a system message
HoldsConversation(messages) ==
    \E i \in 1..Len(messages) : messages[i].Role # RoleSystem

\* C19: a call with a non-empty list that does not fit a positive budget
\* never returns, without error, a list that is empty or holds no
\* conversation message.
C19_NothingFitsIsError ==
    (/\ PrepareContextReturned
     /\ call.messages # <<>>
     /\ CallBudget > 0
     /\ estimateTokens(call.messages) > CallBudget
     /\ ret.value.Err = "") =>
        HoldsConversation(ret.value.Messages)

CheapLabels == {"tier:fast", "tier:cheap"}

QualityLabels == {"tier:quality", "tier:powerful"}

HasLabelIn(labels, S) == \E i \in 1..Len(labels) : labels[i] \in S

\* the positions of the tier hints the label loop acts on
HintPositions(labels) ==
    {i \in 1..Len(labels) : labels[i] \in CheapLabels \cup QualityLabels}

\* the last of these hints, "" when there is none
LastHint(labels) ==
    IF HintPositions(labels) = {} THEN ""
    ELSE labels[CHOOSE i \in HintPositions(labels) :
                    \A j \in HintPositions(labels) : j <= i]

AnalyzeReturnedNoToolUse ==
    /\ AnalyzeReturned
    /\ ~TextHasToolPhrase(call.title, call.description)

\* C20 as stated: without a tool-use phrase, labels that contain tier:fast or
\* tier:cheap give Score <= 30 and labels that contain tier:quality or
\* tier:powerful give Score >= 60.
C20_EveryHintBounds ==
    AnalyzeReturnedNoToolUse =>
        /\ HasLabelIn(call.labels, CheapLabels) => ret.value.Score <= 30
        /\ HasLabelIn(call.labels, QualityLabels) => ret.value.Score >= 60

\* C20, amended: without a tool-use phrase, the last tier hint of the label
\* list decides: Score <= 30 when it is tier:fast or tier:cheap, Score >= 60
\* when it is tier:quality or tier:powerful.
C20_LastHintBounds ==
    AnalyzeReturnedNoToolUse =>
        /\ LastHint(call.labels) \in CheapLabels => ret.value.Score <= 30
        /\ LastHint(call.labels) \in QualityLabels => ret.value.Score >= 60

\* a low-scoring task with a cheap hint followed by a quality hint is
\* raised to 60
C20_Witness ==
    /\ AnalyzeReturnedNoToolUse
    /\ HasLabelIn(call.labels, CheapLabels)
    /\ LastHint(call.labels) \in QualityLabels
    /\ RawScore(Combined(call.title, call.description)) < 30
    /\ ret.value.Score = 60

\* the producer of p has sent and closed, or not yet sent
StreamShape(p) ==
    LET s == stream[p] IN
    /\ Len(s.sent) <= 1
    /\ s.pc \in {"off", "invoke"} => (s.sent = <<>> /\ ~s.closed)
    /\ s.pc \in {"close", "done"} =>
           /\ Len(s.sent) = 1
           /\ s.sent[1] = ChunkFor(caller[p].result)
           /\ s.sent[1].Done
           /\ (s.sent[1].Error # "") # (s.sent[1].Content # "")
    /\ s.closed <=> s.pc = "done"
    /\ \A i \in 1..Len(s.received) : s.received[i] = s.sent[i]
    /\ Len(s.received) + Len(s.ch) <= Len(s.sent)

\* the send of the producer never finds the buffer full
SendNeverBlocks == \A p \in Callers : AtSend(p) => CanSend(p)

\* once Invoke has returned, the producer sends, closes and ends
ProducerTerminates ==
    \A p \in Callers : AtSend(p) ~> (stream[p].pc = "done")

\* C16: every InvokeStream call yields a finite stream: the producer sends
\* exactly one chunk, with Done set and carrying either the content or an
\* error, and then closes the channel; the send never blocks, so the producer
\* ends after Invoke returns even when the consumer never reads.
C16_FiniteStream ==
    /\ [](\A p \in Callers : StreamShape(p))
    /\ []SendNeverBlocks
    /\ ProducerTerminates

\* a producer has ended after a failed Invoke while its consumer has read
\* nothing: the error chunk sits in the closed channel
C16_Witness ==
    \E p \in Callers :
        /\ stream[p].pc = "done"
        /\ stream[p].closed
        /\ stream[p].received = <<>>
        /\ Len(stream[p].ch) = 1
        /\ stream[p].ch[1].Error # ""
        /\ stream[p].consumer = "ranging"

ExecuteReturned == call.op = "ExecuteAPIBackend" /\ ret.returned

\* the three failures of an ExecuteAPIBackend call
BackendMissing == call.route.Backend \notin call.registry

ContextPreparationFails ==
    /\ ~BackendMissing
    /\ call.maxTokens - DispatcherContextManager.ReserveTokens <= 0

InvocationFailed ==
    /\ caller[Executor].pc = "done"
    /\ ~caller[Executor].result.ok

ExecuteFailed == BackendMissing \/ ContextPreparationFails \/ InvocationFailed

\* C17: with route.FallbackToCLI set ExecuteAPIBackend never returns an error,
\* and a missing backend, a context-preparation error and a failed invocation
\* each give a result with FallbackToCLI set and Success unset; with the flag
\* unset each of the three is returned as an error; no result has Success and
\* FallbackToCLI both set.
C17_FallbackInsteadOfError ==
    ExecuteReturned =>
        LET v == ret.value IN
        /\ call.route.FallbackToCLI =>
               /\ v.err = ""
               /\ ~v.result.nil
               /\ ExecuteFailed => (v.result.FallbackToCLI /\ ~v.result.Success)
        /\ (~call.route.FallbackToCLI /\ ExecuteFailed) =>
               (v.err # "" /\ v.result.nil)
        /\ ~v.result.nil => ~(v.result.Success /\ v.result.FallbackToCLI)

\* an invocation that failed after all its attempts, on a route that allows
\* the fallback
C17_Witness ==
    /\ ExecuteReturned
    /\ call.route.FallbackToCLI
    /\ ~BackendMissing
    /\ ~ContextPreparationFails
    /\ InvocationFailed
    /\ caller[Executor].attempt = MaxAttempts
    /\ ret.value.result.FallbackToCLI
    /\ ret.value.err = ""

\* sub can be obtained from seq by deleting elements
RECURSIVE IsSubsequence(_, _)
IsSubsequence(sub, seq) ==
    IF sub = <<>> THEN TRUE
    ELSE IF seq = <<>> THEN FALSE
    ELSE IF Head(sub) = Head(seq) THEN IsSubsequence(Tail(sub), Tail(seq))
    ELSE IsSubsequence(sub, Tail(seq))

\* a TruncateMiddle call that truncates a list with more than two non-system
\* messages
TruncateMiddleTruncated ==
    /\ PrepareContextReturned
    /\ CallStrategy = TruncateMiddle
    /\ CallBudget > 0
    /\ estimateTokens(call.messages) > CallBudget
    /\ Len(Conversation(call.messages)) > 2

\* C22: when TruncateMiddle truncates a list with more than two non-system
\* messages, the result is the system message (if any), the first non-system
\* message, kept middle messages and the last non-system message, and it is a
\* subsequence of the input.
C22_MiddleKeepsOrder ==
    TruncateMiddleTruncated =>
        LET conversation == Conversation(call.messages)
            result == ret.value.Messages
            rest == Conversation(result)
        IN /\ ret.value.Err = ""
           /\ HasSystemMsg(call.messages) =>
                  (HasSystemMsg(result) /\ result[1] = call.messages[1])
           /\ Len(rest) >= 2
           /\ rest[1] = conversation[1]
           /\ rest[Len(rest)] = conversation[Len(conversation)]
           /\ IsSubsequence(result, call.messages)

\* C23: the result of TruncateLongest never both exceeds the budget and
\* still holds a non-system message.
C23_LongestDropsUntilFits ==
    (/\ PrepareContextReturned
     /\ CallStrategy = TruncateLongest
     /\ CallBudget > 0
     /\ ret.value.Err = "") =>
        \/ estimateTokens(ret.value.Messages) <= CallBudget
        \/ ~HoldsConversation(ret.value.Messages)

\* C24: a TruncateOldest call with a positive budget that returns without
\* error returns messages whose estimated total is at most the budget.
C24_OldestWithinBudget ==
    (/\ PrepareContextReturned
     /\ CallStrategy = TruncateOldest
     /\ CallBudget > 0
     /\ ret.value.Err = "") =>
        estimateTokens(ret.value.Messages) <= CallBudget

\* a TruncateOldest call on a list that does not fit its positive budget
TruncateOldestTruncated ==
    /\ PrepareContextReturned
    /\ CallStrategy = TruncateOldest
    /\ CallBudget > 0
    /\ estimateTokens(call.messages) > CallBudget

\* the last n elements of seq
Suffix(seq, n) == SubSeq(seq, Len(seq) - n + 1, Len(seq))

\* what the budget leaves for the conversation of the call
CallAvailableForConversation ==
    CallBudget - (IF HasSystemMsg(call.messages)
                  THEN estimateMessageTokens(call.messages[1]) ELSE 0)

\* C25: when TruncateOldest truncates, the non-system messages it keeps are a
\* suffix of the conversation in their original order, after the system
\* message if there is one; the walk from the newest message stops at the
\* first message that does not fit, so the message just before the suffix
\* does not fit next to it.
C25_OldestKeepsSuffix ==
    TruncateOldestTruncated =>
        LET conversation == Conversation(call.messages)
            result == ret.value.Messages
            rest == Conversation(result)
            n == Len(rest)
        IN /\ ret.value.Err = ""
           /\ HasSystemMsg(call.messages) <=> HasSystemMsg(result)
           /\ n <= Len(conversation)
           /\ rest = Suffix(conversation, n)
           /\ (Len(call.messages) >= 2 /\ n < Len(conversation)
                   /\ CallAvailableForConversation > 0) =>
                  estimateTokens(rest)
                      + estimateMessageTokens(conversation[Len(conversation) - n])
                      > CallAvailableForConversation

\* the newest message is kept and a message that does not fit is dropped,
\* together with the oldest message, which would have fitted
C25_Witness ==
    /\ TruncateOldestTruncated
    /\ HasSystemMsg(call.messages)
    /\ Len(Conversation(call.messages)) >= 3
    /\ Len(Conversation(ret.value.Messages)) = 1
    /\ estimateTokens(Conversation(ret.value.Messages))
           + estimateMessageTokens(Conversation(call.messages)[1])
           <= CallAvailableForConversation

\* the callers whose Wait has returned nil
Passed == {p \in Callers : caller[p].pc = "done" /\ caller[p].result.ok}

\* the first refill interval after the construction of the limiter at time 0
\* is not over
InFirstInterval == now < limiter.refillInterval

\* with maxTokens = 1, during the first interval at most one Wait has
\* returned nil and it has used up the token; every other Wait that has
\* returned has returned the context's error
SecondWaitHeldBack ==
    (limiter.maxTokens = 1 /\ InFirstInterval) =>
        /\ Cardinality(Passed) + limiter.tokens <= 1
        /\ \A p \in Callers :
               (caller[p].pc = "done" /\ p \notin Passed) =>
                   caller[p].result.err = "context canceled"

\* a Wait that finds the lock free and the bucket of a maxTokens = 1 limiter
\* full returns nil in the same step
FirstWaitDoesNotBlock ==
    \A p \in Callers :
        (WaitLock(p) /\ limiter.maxTokens = 1 /\ limiter.tokens = 1) =>
            (caller'[p].pc = "done" /\ caller'[p].result.ok)

\* C21: on a limiter with maxTokens = 1 the first Wait returns nil without
\* blocking, and a second Wait issued before the refill interval has elapsed
\* does not return nil until one full interval has passed since construction;
\* before that it can only return with the cancellation error.
C21_SecondWaitWaitsOneInterval ==
    []SecondWaitHeldBack /\ [][FirstWaitDoesNotBlock]_vars

\* both Waits have returned nil on a maxTokens = 1 limiter exactly one refill
\* interval after its construction: the second one waited in the select
C21_Witness ==
    /\ limiter.maxTokens = 1
    /\ Passed = Callers
    /\ now = limiter.refillInterval

AfterRefill == Refill(limiter, now)

SomeoneCanLock == LimiterFree /\ \E p \in Callers : caller[p].pc = "lock"

\* C30: the token count of the limiter stays within 0..maxTokens, in the
\* states between two Waits and inside a Wait right after its refill.
C30_TokensInRange ==
    /\ 0 <= limiter.tokens
    /\ limiter.tokens <= limiter.maxTokens
    /\ SomeoneCanLock =>
           (0 <= AfterRefill.tokens /\ AfterRefill.tokens <= limiter.maxTokens)

\* a Wait is about to run a partial refill that adds a token to a full
\* bucket: the cap keeps the count at maxTokens
C30_Witness ==
    /\ SomeoneCanLock
    /\ limiter.tokens = limiter.maxTokens
    /\ now - limiter.lastRefill < limiter.refillInterval
    /\ (limiter.maxTokens * (now - limiter.lastRefill)) \div limiter.refillInterval > 0
    /\ AfterRefill.tokens = limiter.maxTokens

\* Route has returned for a task with a tool-use phrase, routing enabled
RouteReturnedForToolUse ==
    /\ call.op = "Route"
    /\ ret.returned
    /\ call.config.Enabled
    /\ TextHasToolPhrase(CallHints.Title, CallHints.Description)

\* C27 as stated: with routing enabled, Route never returns Decision API for
\* a task whose title and description contain a tool-use phrase, whatever the
\* legacy model tag, legacy tier, intent, labels and registered backends.
C27_ToolUseNeverAPI ==
    RouteReturnedForToolUse => ret.value.Decision # RouteAPI

\* the hints carry a legacy model tag that names a known model or a registered
\* backend, or one of the three legacy tiers
LegacyHintApplies ==
    \/ CallHints.ModelTag \in DOMAIN TierToBackend \cup call.registry
    \/ ToLower(CallHints.Tier) \in {<<"h","a","i","k","u">>, <<"s","o","n","n","e","t">>, <<"o","p","u","s">>}

\* C27 as amended: with routing enabled, Route returns Decision API for a
\* task with a tool-use phrase only when a legacy model tag or a legacy tier
\* decides the route; without one that applies the task goes to the CLI with
\* the tool-use reason, whatever intent, labels and registered backends.
C27_ToolUseAPIOnlyByLegacy ==
    RouteReturnedForToolUse =>
        /\ ret.value.Decision = RouteAPI => LegacyHintApplies
        /\ ~LegacyHintApplies =>
               ret.value.Reason = <<"task requires tool use (file operations, git, etc.)">>

\* a task with a tool-use phrase whose tag and tier are set but name nothing,
\* with a backend registered that would serve it: it goes to the CLI
C27_Witness ==
    /\ RouteReturnedForToolUse
    /\ CallHints.ModelTag = "nope"
    /\ CallHints.Tier = <<"g","p","t">>
    /\ CallHints.Labels = <<"tier:fast">>
    /\ call.registry = {"grok", "bedrock"}
    /\ ret.value.Decision = RouteCLI

\* the sum of the per-backend totals of the lines of a report
RECURSIVE SumLines(_, _)
SumLines(lines, backends) ==
    IF backends = {} THEN 0
    ELSE LET b == CHOOSE x \in backends : TRUE IN
         lines[b].TotalCost + SumLines(lines, backends \ {b})

FormatSummaryReturned == call.op = "FormatSummary" /\ ret.returned

\* C28: the total in the header of a FormatSummary report is the sum of the
\* per-backend totals of the same report, and the report says "No API costs
\* recorded" only when the total is zero, also when Record or Reset run
\* concurrently.
C28_ReportAddsUp ==
    FormatSummaryReturned =>
        LET report == ret.value IN
        IF report.none THEN report.total = 0
        ELSE report.total = SumLines(report.lines, DOMAIN report.lines)

\* the call has returned a result with Success set
ExecuteSucceeded ==
    /\ ExecuteReturned
    /\ ~ret.value.result.nil
    /\ ret.value.result.Success

\* C29: ExecuteAPIBackend appends exactly one ledger entry for a call that
\* returns a successful result, after the invocation has returned, and none
\* on a path that ends in an error or a CLI fallback: the ledger holds as many
\* entries as there were successful executions.
C29_LedgerCountsSuccesses ==
    call.op = "ExecuteAPIBackend" =>
        /\ Len(Entries) = (IF ExecuteSucceeded THEN 1 ELSE 0)
        /\ ExecuteSucceeded =>
               /\ ret.value.err = ""
               /\ caller[Executor].pc = "done"
               /\ caller[Executor].result.ok
               /\ Entries[1].Backend = call.route.Backend
               /\ Total = Entries[1].TotalCost

\* a successful call whose estimated cost was over the threshold on a route
\* without fallback: the warning path, one entry
C29_Witness ==
    /\ ExecuteSucceeded
    /\ ~call.route.FallbackToCLI
    /\ call.costEstimate > call.config.CostThreshold
    /\ Len(Entries) = 1
    /\ caller[Executor].attempt > 1

=============================================================================
